---------------------------- MODULE Spec2Model ----------------------------
(***************************************************************************)
(* Tunneling-rate estimation engine of VevaciousPlusPlus:                  *)
(*   - BounceActionTunneler::CalculateTunneling and the quantum / thermal  *)
(*     calculations it dispatches to (specification Spec),                 *)
(*   - BounceActionTunneler::SetMaximumTunnelingTemperatureRange           *)
(*     (specification SpecRange),                                          *)
(*   - NodesOnBisectingPlanes: the constructor and UpdateRotationMatrix    *)
(*     (specification SpecNodes).                                          *)
(*                                                                         *)
(* Doubles are modelled on a logarithmic grid.  A double is a record       *)
(* [k, v]:                                                                 *)
(*   k = "int"    : the double with the integer value v                    *)
(*   k = "mag"    : the positive double e^v                                *)
(*   k = "negmag" : the negative double -(e^v)                             *)
(*   k = "expneg" : the double exp(-(e^v)), strictly between 0 and 1       *)
(*   k = "inf"    : +infinity                                              *)
(*   k = "nan"    : not-a-number                                           *)
(*   k = "pow2"   : the positive double 2^(v / TicksPerOctave), used for   *)
(*                  temperatures in GeV                                    *)
(* Program constants are rounded to this grid (natural logarithms rounded  *)
(* to integers).                                                           *)
(***************************************************************************)
EXTENDS Integers, Sequences, FiniteSets

VARIABLES
  \* TunnelingCalculator / BounceActionTunneler instance configuration
  tunnelingStrategy,
  survivalProbabilityThreshold,
  \* the five result fields
  quantumSurvivalProbability,
  quantumLifetimeInSeconds,
  thermalSurvivalProbability,
  partialThermalDecayWidth,
  dominantTemperatureInGigaElectronVolts,
  \* protected members written by the calculations
  logOfMinusLogOfQuantumProbability,
  logOfMinusLogOfThermalProbability,
  \* position inside CalculateTunneling, the arguments of the call and the
  \* bounce action CalculateQuantumTunneling obtained last
  pc,
  args,
  quantumAction,
  \* what the current (or last) CalculateTunneling call did
  outcome,
  calls,
  warnings,
  \* SetMaximumTunnelingTemperatureRange: locals, output pair, test oracle
  temperatureAccuracy,
  rangePc,
  temperatureGuess,
  rangeOfMaxTemperature,
  narrowingStep,
  belowCritical,
  probes,
  \* NodesOnBisectingPlanes: construction state, constructor arguments and
  \* members
  nodesPc,
  numberOfFields,
  requestedNodes,
  numberOfIntermediateNodes,
  numberOfSplits,
  pathNodesSize,
  adjustmentOrder,
  sideNodeIndices,
  \* UpdateRotationMatrix: the side nodes and reference field it last ran
  \* with, and the matrix it left
  rotationArgs,
  rotationMatrix,
  \* AddTransformedNode: the arguments of its last call and the nodeVector it
  \* left
  transformedNode,
  \* GradientFromStartingPoints: position inside FindMinima, its argument,
  \* the temperature of gradientMinimizer and its last minimization
  minimaPc,
  minimizationTemperature,
  minimizerTemperature,
  lastMinimization,
  \* GradientFromStartingPoints: members
  global_Is_Panic,
  done_homotopy,
  startingPoints,
  dsbVacuum,
  foundMinima,
  panicVacua,
  panicVacuum,
  panicVacuum_global,
  panicVacuum_nearest,
  \* FindMinima: the starting point it is at, its foundMinimum, and the
  \* retries of the loop on a NaN minimum
  realSolution,
  foundMinimum,
  retries,
  \* numbers of FindMinima calls and of startingPointFinder calls
  findMinimaCalls,
  finderCalls

tunnelVars ==
  << tunnelingStrategy, survivalProbabilityThreshold,
     quantumSurvivalProbability, quantumLifetimeInSeconds,
     thermalSurvivalProbability, partialThermalDecayWidth,
     dominantTemperatureInGigaElectronVolts,
     logOfMinusLogOfQuantumProbability, logOfMinusLogOfThermalProbability,
     pc, args, quantumAction, outcome, calls, warnings >>

rangeVars ==
  << temperatureAccuracy, rangePc, temperatureGuess, rangeOfMaxTemperature,
     narrowingStep, belowCritical, probes >>

nodeVars ==
  << nodesPc, numberOfFields, requestedNodes, numberOfIntermediateNodes,
     numberOfSplits, pathNodesSize, adjustmentOrder, sideNodeIndices,
     rotationArgs, rotationMatrix, transformedNode >>

minimaVars ==
  << minimaPc, minimizationTemperature, minimizerTemperature,
     lastMinimization, global_Is_Panic, done_homotopy, startingPoints,
     dsbVacuum, foundMinima, panicVacua, panicVacuum, panicVacuum_global,
     panicVacuum_nearest, realSolution, foundMinimum, retries,
     findMinimaCalls, finderCalls >>

vars == << tunnelVars, rangeVars, nodeVars, minimaVars >>

----------------------------------------------------------------------------
(* Doubles on the logarithmic grid                                         *)

IntD(n) == [k |-> "int", v |-> n]
Mag(l) == [k |-> "mag", v |-> l]
NegMag(l) == [k |-> "negmag", v |-> l]
ExpNeg(l) == [k |-> "expneg", v |-> l]
Inf == [k |-> "inf", v |-> 0]
NaN == [k |-> "nan", v |-> 0]
Zero == IntD(0)

\* ln( std::numeric_limits< double >::max() ) = 709.78, and the logarithm of
\* the smallest positive double that a product can round to, -745.13.
MaxLnDouble == 709
MinLnDouble == -745
\* exp( -x ) is exactly 1.0 for 0 <= x < 2^-54: ln( 2^-54 ) = -37.4.
LnHalfUlp == -38

\* log( 0.5 * std::numeric_limits< double >::max() ) = 709.09
maximumPowerOfNaturalExponent == 709
\* The smallest grid logarithm l with e^l >= maximumPowerOfNaturalExponent:
\* ln( 709.09 ) = 6.56.
LnMaximumPower == 7

\* ln( 6.58211928E-25 ) = -55.7, ln( 4.3E+17 ) = 40.6
LnHBarInGigaElectronVoltSeconds == -56
LnAgeOfKnownUniverseInSeconds == 41
\* ageOfKnownUniverseInSeconds / hBarInGigaElectronVoltSeconds
LnAgeOfKnownUniverseInInverseGigaElectronVolts ==
  LnAgeOfKnownUniverseInSeconds - LnHBarInGigaElectronVoltSeconds
\* ln( 1.0E+100 ) = 230.3, ln( 0.1 ) = -2.3
LnCappedLifetime == 230
LnFlooredLifetime == -2

\* A product or quotient of magnitudes, rounded as the hardware rounds it:
\* overflow gives infinity, underflow gives zero.
Norm(l) ==
  IF l > MaxLnDouble THEN Inf
  ELSE IF l < MinLnDouble THEN Zero
  ELSE Mag(l)

\* a * b for a, b in { Zero, Mag, Inf, NaN }
Mul(a, b) ==
  IF a = NaN \/ b = NaN THEN NaN
  ELSE IF (a = Zero /\ b = Inf) \/ (a = Inf /\ b = Zero) THEN NaN
  ELSE IF a = Zero \/ b = Zero THEN Zero
  ELSE IF a = Inf \/ b = Inf THEN Inf
  ELSE Norm(a.v + b.v)

\* a / b for a, b in { Zero, Mag, Inf, NaN }
Div(a, b) ==
  IF a = NaN \/ b = NaN THEN NaN
  ELSE IF (a = Zero /\ b = Zero) \/ (a = Inf /\ b = Inf) THEN NaN
  ELSE IF a = Zero \/ b = Inf THEN Zero
  ELSE IF b = Zero \/ a = Inf THEN Inf
  ELSE Norm(a.v - b.v)

\* std::pow( a, n ) for a in { Zero, Mag, Inf, NaN } and n >= 1
Pow(a, n) ==
  IF a \in {NaN, Zero, Inf} THEN a ELSE Norm(n * a.v)

\* The integer nearest to e^l for 0 <= l < LnMaximumPower.
RoundExp(l) == << 1, 3, 7, 20, 55, 148, 403 >>[l + 1]

\* exp( x ) for a double x that is an integer, -(e^l) or NaN
Exp(x) ==
  IF x.k = "nan" THEN NaN
  ELSE IF x.k = "int" THEN Norm(x.v)
  ELSE IF x.v >= LnMaximumPower THEN Zero
  ELSE IF x.v < 0 THEN Mag(0)
  ELSE Mag(-RoundExp(x.v))

\* Mutant of ExpOfMinus: the minus sign is missing, exp( m ) rounded up to the
\* grid.
ExpOfPlus(m) ==
  IF m.k = "mag" THEN Mag(IF m.v < 0 THEN 1 ELSE RoundExp(m.v)) ELSE m

\* exp( -m ) for m in { Zero, Mag, Inf, NaN }
ExpOfMinus(m) ==
  IF m = NaN THEN NaN
  ELSE IF m = Zero THEN IntD(1)
  ELSE IF m = Inf THEN IntD(0)
  ELSE IF m.v <= LnHalfUlp THEN IntD(1)
  ELSE IF m.v >= LnMaximumPower THEN IntD(0)
  ELSE ExpNeg(m.v)

\* a < b for doubles that are integers, exp(-(e^l)) or NaN (potential values,
\* probabilities, thresholds).  Any comparison with NaN is false.
Less(a, b) ==
  IF a.k = "nan" \/ b.k = "nan" THEN FALSE
  ELSE IF a.k = "int" /\ b.k = "int" THEN a.v < b.v
  ELSE IF a.k = "int" THEN a.v <= 0
  ELSE IF b.k = "int" THEN b.v >= 1
  ELSE a.v > b.v

\* x >= maximumPowerOfNaturalExponent
GeqMaximumPower(x) ==
  CASE x.k = "int" -> x.v >= maximumPowerOfNaturalExponent
    [] x.k = "mag" -> x.v >= LnMaximumPower
    [] x.k = "inf" -> TRUE
    [] OTHER -> FALSE

\* x <= -maximumPowerOfNaturalExponent
LeqMinusMaximumPower(x) ==
  CASE x.k = "int" -> x.v <= -maximumPowerOfNaturalExponent
    [] x.k = "negmag" -> x.v >= LnMaximumPower
    [] OTHER -> FALSE

NotCalculated == IntD(-1)


\* -x for x in { Zero, Mag, NaN }
Neg(x) == IF x.k = "mag" THEN NegMag(x.v) ELSE x

\* sqrt( x ) for x in { Zero, Mag, Inf, NaN }
Sqrt(x) == IF x.k = "mag" THEN Mag(x.v \div 2) ELSE x

----------------------------------------------------------------------------
(* Inputs of the model                                                     *)

\* TunnelingCalculator::TunnelingStrategy; NotSet stands for any value that
\* is none of the five the dispatch names.
TunnelingStrategies ==
  { "NoTunneling", "JustQuantum", "JustThermal", "QuantumThenThermal",
    "ThermalThenQuantum", "NotSet" }

\* survivalProbabilityThreshold: exp(-e) = 0.066, or 0.
ThresholdInputs == { ExpNeg(1), IntD(0) }

\* One-field configurations: the field origin is 0, the vacua lie at -2 and 1.
fieldOrigin == 0
VacuumValues == { -2, 1 }
FieldValues == VacuumValues \cup { fieldOrigin }

\* Values of the potential at zero temperature (GeV^4).
PotentialValues == { IntD(0), IntD(1), IntD(2) }

\* The bounce action returned by BounceAction at zero temperature.
ActionInputs ==
  { IntD(a) : a \in { -800, -maximumPowerOfNaturalExponent,
                      1 - maximumPowerOfNaturalExponent, 400,
                      maximumPowerOfNaturalExponent - 1,
                      maximumPowerOfNaturalExponent, 800 } }

\* ScaleSquaredRelevantToTunneling: 1 GeV^2 and e^10 GeV^2 = (148 GeV)^2.
ScaleSquaredInputs == { Mag(0), Mag(10) }

\* The value ContinueThermalTunneling computes for
\* logOfMinusLogOfThermalProbability.
LogOfMinusLogInputs ==
  { IntD(a) : a \in { -800, -maximumPowerOfNaturalExponent,
                      1 - maximumPowerOfNaturalExponent, -40, 1,
                      LnMaximumPower - 1, LnMaximumPower,
                      maximumPowerOfNaturalExponent, 800 } }

\* The dominant temperature and the partial width ContinueThermalTunneling
\* computes: e^5 GeV = 148 GeV, and a width of e^-20 GeV.
DominantTemperatureInputs == { Mag(5) }
PartialDecayWidthInputs == { Mag(-20) }

\* The arguments of a CalculateTunneling call: two distinct vacua and the
\* potential function, given by its values where the call evaluates it.
\* The potential functions: every assignment of the values, and a potential
\* that evaluates to NaN everywhere.
PotentialFunctionInputs ==
  [ FieldValues -> PotentialValues ] \cup { [ x \in FieldValues |-> NaN ] }

ArgumentInputs ==
  { a \in [ falseVacuum : VacuumValues, trueVacuum : VacuumValues,
            potentialFunction : PotentialFunctionInputs ] :
      a.falseVacuum # a.trueVacuum }

NoArguments ==
  [ falseVacuum |-> fieldOrigin, trueVacuum |-> fieldOrigin,
    potentialFunction |-> [ x \in FieldValues |-> IntD(0) ] ]

\* PotentialMinimum::LengthSquared and PotentialMinimum::SquareDistanceTo
LengthSquared(x) == x * x
SquareDistanceTo(x, y) == (x - y) * (x - y)

----------------------------------------------------------------------------
(* BounceActionTunneler: the calculations                                  *)

\* vacuumSeparationFraction * vacuumSeparationFraction of the constructor,
\* for a fraction of 1/2, as numerator and denominator.
vacuumSeparationFractionSquared == [ num |-> 1, den |-> 4 ]

\* WarningLogger::LogWarning: a logged warning, by the path that logs it and
\* the regime it reports.
Warning(path, regime) == [ path |-> path, regime |-> regime ]

\* CalculateQuantumTunneling: the values it leaves in
\* logOfMinusLogOfQuantumProbability, quantumLifetimeInSeconds and
\* quantumSurvivalProbability, and the warnings it logs, for the bounce action
\* and the scale the potential reports.
QuantumTunneling(action, scaleSquared) ==
  LET fourthRootOfSolitonicFactor == Sqrt(scaleSquared)
      logOfMinusLog ==
        IF fourthRootOfSolitonicFactor.k = "mag" /\ action.k = "int"
        THEN IntD( ( LnAgeOfKnownUniverseInSeconds
                     + LnHBarInGigaElectronVoltSeconds
                     - fourthRootOfSolitonicFactor.v )
                   - ( action.v \div 4 ) )
        ELSE NaN
      lifetime ==
        Div( Mul( Exp(action), Mag(LnHBarInGigaElectronVoltSeconds) ),
             Mul( Pow( Mag(LnAgeOfKnownUniverseInInverseGigaElectronVolts), 3 ),
                  Pow( fourthRootOfSolitonicFactor, 4 ) ) )
      survivalExponent == Div( Mag(LnAgeOfKnownUniverseInSeconds), lifetime )
  IN  IF GeqMaximumPower(action)
      THEN [ logOfMinusLog |-> logOfMinusLog,
             lifetime |-> Mag(LnCappedLifetime),
             probability |-> IntD(1),
             warnings |-> << Warning("quantum", "large positive") >> ]
      ELSE IF LeqMinusMaximumPower(action)
      THEN [ logOfMinusLog |-> logOfMinusLog,
             lifetime |-> Mag(LnFlooredLifetime),
             probability |-> IntD(0),
             warnings |-> << Warning("quantum", "large negative") >> ]
      ELSE IF GeqMaximumPower(survivalExponent)
      THEN [ logOfMinusLog |-> logOfMinusLog,
             lifetime |-> lifetime,
             probability |-> IntD(0),
             warnings |-> << Warning("quantum", "decay width") >> ]
      ELSE [ logOfMinusLog |-> logOfMinusLog,
             lifetime |-> lifetime,
             probability |-> ExpOfMinus(survivalExponent),
             warnings |-> << >> ]

\* Mutant of SetThermalSurvivalProbability: the two saturation branches store
\* each other's value.
SetThermalSurvivalProbabilitySwapped(logOfMinusLog) ==
  IF GeqMaximumPower(logOfMinusLog)
  THEN [ probability |-> IntD(1),
         warnings |-> << Warning("thermal", "large positive") >> ]
  ELSE IF LeqMinusMaximumPower(logOfMinusLog)
  THEN [ probability |-> IntD(0),
         warnings |-> << Warning("thermal", "large negative") >> ]
  ELSE IF GeqMaximumPower(Exp(logOfMinusLog))
  THEN [ probability |-> IntD(0),
         warnings |-> << Warning("thermal", "decay width") >> ]
  ELSE [ probability |-> ExpOfMinus(Exp(logOfMinusLog)),
         warnings |-> << >> ]

\* SetThermalSurvivalProbability: the value it leaves in
\* thermalSurvivalProbability and the warnings it logs, for the current
\* logOfMinusLogOfThermalProbability.
SetThermalSurvivalProbability(logOfMinusLog) ==
  IF GeqMaximumPower(logOfMinusLog)
  THEN [ probability |-> IntD(0),
         warnings |-> << Warning("thermal", "large positive") >> ]
  ELSE IF LeqMinusMaximumPower(logOfMinusLog)
  THEN [ probability |-> IntD(1),
         warnings |-> << Warning("thermal", "large negative") >> ]
  ELSE IF GeqMaximumPower(Exp(logOfMinusLog))
  THEN [ probability |-> IntD(0),
         warnings |-> << Warning("thermal", "decay width") >> ]
  ELSE [ probability |-> ExpOfMinus(Exp(logOfMinusLog)),
         warnings |-> << >> ]

\* SetPartialThermalDecayWidth: the value it leaves in
\* partialThermalDecayWidth and the warnings it logs (it logs none).
SetPartialThermalDecayWidth(logOfMinusLog, partialDecayWidth) ==
  IF GeqMaximumPower(logOfMinusLog)
  THEN [ width |-> IntD(-1), warnings |-> << >> ]
  ELSE IF LeqMinusMaximumPower(logOfMinusLog)
  THEN [ width |-> IntD(0), warnings |-> << >> ]
  ELSE IF GeqMaximumPower(Exp(logOfMinusLog))
  THEN [ width |-> Mag(LnCappedLifetime), warnings |-> << >> ]
  ELSE [ width |-> partialDecayWidth, warnings |-> << >> ]

\* Mutant of TrueVacuumIsDeeper: vacua of equal depth pass the test.
TrueVacuumIsNotShallower(a) ==
  ~Less( a.potentialFunction[a.falseVacuum], a.potentialFunction[a.trueVacuum] )

\* CalculateTunneling, lines 102-103: the direction test that does not throw.
TrueVacuumIsDeeper(a) ==
  Less( a.potentialFunction[a.trueVacuum], a.potentialFunction[a.falseVacuum] )

\* CalculateThermalTunneling, lines 261-269
DsbRolledToOrigin(a) ==
  LengthSquared(a.falseVacuum) * vacuumSeparationFractionSquared.den
    < vacuumSeparationFractionSquared.num
        * SquareDistanceTo(a.falseVacuum, a.trueVacuum)

\* Mutant of ThermalExcluded: the false vacuum having rolled to the origin is
\* not taken into account.
ThermalExcludedWhenAboveOrigin(a) ==
  Less( a.potentialFunction[fieldOrigin], a.potentialFunction[a.falseVacuum] )

\* CalculateThermalTunneling, lines 277-278: the false vacuum lies above the
\* field origin and did not roll to it.
ThermalExcluded(a) ==
  /\ Less( a.potentialFunction[fieldOrigin],
           a.potentialFunction[a.falseVacuum] )
  /\ ~DsbRolledToOrigin(a)


\* Mutant of Dispatch: NoTunneling falls through to the quantum calculation.
DispatchWithoutEarlyReturn(strategy) ==
  CASE strategy \in { "NoTunneling", "JustQuantum", "QuantumThenThermal" } ->
         [ prepare |-> TRUE, next |-> "callQuantum" ]
    [] strategy \in { "JustThermal", "ThermalThenQuantum" } ->
         [ prepare |-> TRUE, next |-> "callThermal" ]
    [] OTHER -> [ prepare |-> TRUE, next |-> "idle" ]

\* Mutant of Dispatch: JustQuantum and JustThermal call each other's
\* calculation.
DispatchSwapped(strategy) ==
  CASE strategy = "NoTunneling" -> [ prepare |-> FALSE, next |-> "idle" ]
    [] strategy \in { "JustThermal", "QuantumThenThermal" } ->
         [ prepare |-> TRUE, next |-> "callQuantum" ]
    [] strategy \in { "JustQuantum", "ThermalThenQuantum" } ->
         [ prepare |-> TRUE, next |-> "callThermal" ]
    [] OTHER -> [ prepare |-> TRUE, next |-> "idle" ]

\* CalculateTunneling, lines 124-177: whether PrepareCommonExtras is called
\* and which calculation is called first, by tunnelingStrategy.
Dispatch(strategy) ==
  CASE strategy = "NoTunneling" -> [ prepare |-> FALSE, next |-> "idle" ]
    [] strategy \in { "JustQuantum", "QuantumThenThermal" } ->
         [ prepare |-> TRUE, next |-> "callQuantum" ]
    [] strategy \in { "JustThermal", "ThermalThenQuantum" } ->
         [ prepare |-> TRUE, next |-> "callThermal" ]
    [] OTHER -> [ prepare |-> TRUE, next |-> "idle" ]

\* Mutant of RunsSecondStage: a probability equal to the threshold passes.
RunsSecondStageAtThreshold(firstStageProbability, threshold) ==
  ~Less(firstStageProbability, threshold)

\* CalculateTunneling, lines 151 and 163: the test that lets the second
\* calculation of a two-stage strategy run.
RunsSecondStage(firstStageProbability, threshold) ==
  Less(threshold, firstStageProbability)

\* ContinueThermalTunneling is implemented by the derived classes: it
\* computes logOfMinusLogOfThermalProbability, the dominant temperature and
\* the partial width, and stores them through SetThermalSurvivalProbability
\* and SetPartialThermalDecayWidth.
ContinueThermalTunneling(logOfMinusLog, dominantTemperature, partialDecayWidth) ==
  [ logOfMinusLog |-> logOfMinusLog,
    probability |-> SetThermalSurvivalProbability(logOfMinusLog).probability,
    width |-> SetPartialThermalDecayWidth(logOfMinusLog,
                                          partialDecayWidth).width,
    temperature |-> dominantTemperature,
    warnings |-> SetThermalSurvivalProbability(logOfMinusLog).warnings
                 \o SetPartialThermalDecayWidth(logOfMinusLog,
                                                partialDecayWidth).warnings,
    calls |-> << "SetThermalSurvivalProbability",
                 "SetPartialThermalDecayWidth" >> ]

\* CalculateThermalTunneling: the values it leaves in the thermal fields, the
\* warnings it logs and the calls it makes, for the arguments a of
\* CalculateTunneling and what ContinueThermalTunneling computes.
ThermalTunneling(a, width, logOfMinusLog, dominantTemperature, partialDecayWidth) ==
  IF ThermalExcluded(a)
  THEN [ logOfMinusLog |-> Neg( Exp( IntD(maximumPowerOfNaturalExponent) ) ),
         probability |-> IntD(0),
         width |-> width,
         temperature |-> IntD(0),
         warnings |-> << Warning("thermal", "DSB above origin") >>,
         calls |-> << >> ]
  ELSE LET c == ContinueThermalTunneling(logOfMinusLog, dominantTemperature,
                                         partialDecayWidth)
       IN  [ c EXCEPT !.calls = << "SetUpMaximumTemperatureRanges",
                                   "ContinueThermalTunneling" >> \o @ ]

----------------------------------------------------------------------------
(* BounceActionTunneler: the operations as actions                         *)

resultFields ==
  << quantumSurvivalProbability, quantumLifetimeInSeconds,
     thermalSurvivalProbability, partialThermalDecayWidth,
     dominantTemperatureInGigaElectronVolts >>

\* Lines 117-122 left out: the fields keep what they held.
ResultsKept(results) == results

\* Lines 117-122: the five fields are set to their "not calculated" values.
ResultsReset(results) == [ i \in 1..5 |-> NotCalculated ]

\* CalculateTunneling up to its first call of a calculation: the direction
\* test, the reset of the result fields, PrepareCommonExtras and the dispatch
\* on tunnelingStrategy.
CalculateTunneling ==
  /\ pc = "idle"
  /\ \E a \in ArgumentInputs :
       /\ args' = a
       /\ warnings' = << >>
       /\ IF ~TrueVacuumIsDeeper(a)
          THEN /\ outcome' = "threw"
               /\ calls' = << >>
               /\ pc' = "idle"
               /\ UNCHANGED resultFields
          ELSE /\ quantumSurvivalProbability'
                    = ResultsReset(resultFields)[1]
               /\ quantumLifetimeInSeconds' = ResultsReset(resultFields)[2]
               /\ thermalSurvivalProbability'
                    = ResultsReset(resultFields)[3]
               /\ partialThermalDecayWidth' = ResultsReset(resultFields)[4]
               /\ dominantTemperatureInGigaElectronVolts'
                    = ResultsReset(resultFields)[5]
               /\ calls' = IF Dispatch(tunnelingStrategy).prepare
                           THEN << "PrepareCommonExtras" >>
                           ELSE << >>
               /\ pc' = Dispatch(tunnelingStrategy).next
               /\ outcome' = IF Dispatch(tunnelingStrategy).next = "idle"
                             THEN "returned"
                             ELSE "running"
  /\ UNCHANGED << tunnelingStrategy, survivalProbabilityThreshold,
                  logOfMinusLogOfQuantumProbability,
                  logOfMinusLogOfThermalProbability, quantumAction,
                  rangeVars, nodeVars, minimaVars >>

\* CalculateQuantumTunneling, called from CalculateTunneling as the first
\* calculation or after the thermal one, and the return to CalculateTunneling
\* (which calls the thermal calculation next or returns).
CalculateQuantumTunneling ==
  /\ pc \in { "callQuantum", "callQuantumAfterThermal" }
  /\ \E action \in ActionInputs, scaleSquared \in ScaleSquaredInputs :
       LET r == QuantumTunneling(action, scaleSquared)
       IN  /\ quantumAction' = action
           /\ logOfMinusLogOfQuantumProbability' = r.logOfMinusLog
           /\ quantumLifetimeInSeconds' = r.lifetime
           /\ quantumSurvivalProbability' = r.probability
           /\ warnings' = warnings \o r.warnings
           /\ calls' = Append(calls, "CalculateQuantumTunneling")
           /\ IF /\ pc = "callQuantum"
                 /\ tunnelingStrategy = "QuantumThenThermal"
                 /\ RunsSecondStage(r.probability,
                                    survivalProbabilityThreshold)
              THEN pc' = "callThermalAfterQuantum" /\ outcome' = "running"
              ELSE pc' = "idle" /\ outcome' = "returned"
  /\ UNCHANGED << tunnelingStrategy, survivalProbabilityThreshold,
                  thermalSurvivalProbability, partialThermalDecayWidth,
                  dominantTemperatureInGigaElectronVolts,
                  logOfMinusLogOfThermalProbability, args, rangeVars,
                  nodeVars, minimaVars >>

\* CalculateThermalTunneling, called from CalculateTunneling as the first
\* calculation or after the quantum one, and the return to CalculateTunneling
\* (which calls the quantum calculation next or returns).
CalculateThermalTunneling ==
  /\ pc \in { "callThermal", "callThermalAfterQuantum" }
  /\ \E logOfMinusLog \in LogOfMinusLogInputs,
        dominantTemperature \in DominantTemperatureInputs,
        partialDecayWidth \in PartialDecayWidthInputs :
       LET r == ThermalTunneling(args, partialThermalDecayWidth, logOfMinusLog,
                                 dominantTemperature, partialDecayWidth)
       IN  /\ logOfMinusLogOfThermalProbability' = r.logOfMinusLog
           /\ thermalSurvivalProbability' = r.probability
           /\ partialThermalDecayWidth' = r.width
           /\ dominantTemperatureInGigaElectronVolts' = r.temperature
           /\ warnings' = warnings \o r.warnings
           /\ calls' = Append(calls, "CalculateThermalTunneling") \o r.calls
           /\ IF /\ pc = "callThermal"
                 /\ tunnelingStrategy = "ThermalThenQuantum"
                 /\ RunsSecondStage(r.probability,
                                    survivalProbabilityThreshold)
              THEN pc' = "callQuantumAfterThermal" /\ outcome' = "running"
              ELSE pc' = "idle" /\ outcome' = "returned"
  /\ UNCHANGED << tunnelingStrategy, survivalProbabilityThreshold,
                  quantumSurvivalProbability, quantumLifetimeInSeconds,
                  logOfMinusLogOfQuantumProbability, quantumAction, args,
                  rangeVars, nodeVars, minimaVars >>

----------------------------------------------------------------------------
(* SetMaximumTunnelingTemperatureRange: temperatures                       *)

\* Largest temperatureAccuracy the tunneler is constructed with.
MaxTemperatureAccuracy == 2

\* Grid points per factor of 2 in temperature: fine enough that every
\* geometric mean taken by temperatureAccuracy narrowing steps is on the grid.
RECURSIVE PowerOfTwo(_)
PowerOfTwo(n) == IF n = 0 THEN 1 ELSE 2 * PowerOfTwo(n - 1)

TicksPerOctave == PowerOfTwo(MaxTemperatureAccuracy)

Tick(l) == [k |-> "pow2", v |-> l]

\* Octaves between the smallest positive double and 1 GeV: halving below the
\* smallest positive double underflows to 0.
OctavesBelowOne == 3

LowestTick == -(OctavesBelowOne * TicksPerOctave)

\* Octave of maximumAllowedTemperature, which lies just above it.
CapOctave == 2

maximumAllowedTemperature == Tick(CapOctave * TicksPerOctave + 1)

\* Number of BelowCriticalTemperature calls followed in one search.
MaxProbes == 16

\* Mutant of Twice: the guess is halved.
HalvedNotDoubled(t) ==
  IF t.k = "pow2"
  THEN IF t.v - TicksPerOctave < LowestTick
       THEN Zero
       ELSE Tick(t.v - TicksPerOctave)
  ELSE t

\* temperatureGuess + temperatureGuess
Twice(t) == IF t.k = "pow2" THEN Tick(t.v + TicksPerOctave) ELSE t

\* 0.5 * temperatureGuess
Half(t) ==
  IF t.k = "pow2"
  THEN IF t.v - TicksPerOctave < LowestTick
       THEN Zero
       ELSE Tick(t.v - TicksPerOctave)
  ELSE t

\* Mutant of ReachesCap: the comparison is strict.
ExceedsCap(t) == t.k = "pow2" /\ t.v > maximumAllowedTemperature.v

\* temperatureGuess >= maximumAllowedTemperature
ReachesCap(t) == t.k = "pow2" /\ t.v >= maximumAllowedTemperature.v

\* Mutant of GeometricMean: the square root is not taken.
ProductOfEnds(first, second) ==
  IF first = NaN \/ second = NaN THEN NaN
  ELSE IF first = Zero \/ second = Zero THEN Zero
  ELSE IF first.v + second.v < LowestTick THEN Zero
  ELSE Tick(first.v + second.v)

\* Mutant of GeometricMean: the low end is multiplied by itself.
GeometricMeanOfFirst(first, second) == first

\* sqrt( first * second ): the product underflows to 0 below the smallest
\* positive double.
GeometricMean(first, second) ==
  IF first = NaN \/ second = NaN THEN NaN
  ELSE IF first = Zero \/ second = Zero THEN Zero
  ELSE IF first.v + second.v < LowestTick THEN Zero
  ELSE Tick((first.v + second.v) \div 2)

\* log2( 0.2 ) in grid points, rounded.
TicksOfOneFifth == -((7 * TicksPerOctave) \div 3)

\* pow( ( 0.2 * drop ), 0.25 ) for the drop potentialAtOriginAtZeroTemperature
\* - potentialFunction( zeroTemperatureVacuum.FieldConfiguration() )
InitialTemperatureGuess(drop) ==
  IF drop.k = "pow2" THEN Tick((drop.v + TicksOfOneFifth) \div 4)
  ELSE IF drop = Zero THEN Zero
  ELSE NaN

\* Initial guesses (in grid points) reached from the drops below: 1 GeV, two
\* guesses whose doubling lands exactly on the cap, and a guess above the cap.
GuessTicks ==
  { 0, 1,
    maximumAllowedTemperature.v - TicksPerOctave,
    maximumAllowedTemperature.v + TicksPerOctave + 1 }

\* Drops in potential from the origin to the vacuum: positive (the smallest
\* positive double among them), zero, negative.
PotentialDropInputs ==
  { Tick(4 * g - TicksOfOneFifth) : g \in GuessTicks }
    \cup { Tick(LowestTick), Zero, NegMag(0) }

\* Mutant of NarrowedRange: the two branches assign the other end.
NarrowedRangeSwapped(range, guess, below) ==
  IF below THEN << range[1], guess >> ELSE << guess, range[2] >>

\* Lines 392-401: the guess replaces the low end when it is below the critical
\* temperature, the high end otherwise.
NarrowedRange(range, guess, below) ==
  IF below THEN << guess, range[2] >> ELSE << range[1], guess >>

\* BelowCriticalTemperature is a deterministic test of the temperature (the
\* potential and the vacuum are fixed during one search): its value at a
\* temperature is chosen when it is first asked for and kept in belowCritical.
BelowCriticalTemperature(t, b) ==
  \A e \in belowCritical : e.t = t => e.b = b

\* One call of BelowCriticalTemperature at temperature t answering b, made in
\* the given phase of the search.
Probed(t, b, phase) ==
  /\ Len(probes) < MaxProbes
  /\ BelowCriticalTemperature(t, b)
  /\ belowCritical' = belowCritical \cup { [t |-> t, b |-> b] }
  /\ probes' = Append(probes, [t |-> t, b |-> b, phase |-> phase])

----------------------------------------------------------------------------
(* SetMaximumTunnelingTemperatureRange: the steps as actions               *)

\* Lines 324-333: the initial guess.
SetMaximumTunnelingTemperatureRange ==
  /\ rangePc = "idle"
  /\ \E drop \in PotentialDropInputs :
       temperatureGuess' = InitialTemperatureGuess(drop)
  /\ rangePc' = "doubling"
  /\ UNCHANGED << temperatureAccuracy, rangeOfMaxTemperature, narrowingStep,
                  belowCritical, probes, tunnelVars, nodeVars, minimaVars >>

\* Lines 335-368: one test of the doubling loop, and the doubling (with the
\* cap) or the exit to the halving loop that follows it.
DoublingProbe ==
  /\ rangePc = "doubling"
  /\ \E b \in BOOLEAN :
       /\ Probed(temperatureGuess, b, "doubling")
       /\ IF b
          THEN IF ReachesCap(Twice(temperatureGuess))
               THEN /\ temperatureGuess' = maximumAllowedTemperature
                    /\ rangePc' = "cap"
               ELSE /\ temperatureGuess' = Twice(temperatureGuess)
                    /\ rangePc' = "doubling"
          ELSE /\ temperatureGuess' = Half(temperatureGuess)
               /\ rangePc' = "halving"
  /\ UNCHANGED << temperatureAccuracy, rangeOfMaxTemperature, narrowingStep,
                  tunnelVars, nodeVars, minimaVars >>

\* Lines 346-357 and 368: the test at the cap, and the return or the break to
\* the halving loop that follows it.
CapProbe ==
  /\ rangePc = "cap"
  /\ \E b \in BOOLEAN :
       /\ Probed(temperatureGuess, b, "cap")
       /\ IF b
          THEN /\ rangeOfMaxTemperature'
                    = << maximumAllowedTemperature, maximumAllowedTemperature >>
               /\ rangePc' = "done"
               /\ UNCHANGED temperatureGuess
          ELSE /\ temperatureGuess' = Half(temperatureGuess)
               /\ rangePc' = "halving"
               /\ UNCHANGED rangeOfMaxTemperature
  /\ UNCHANGED << temperatureAccuracy, narrowingStep, tunnelVars,
                  nodeVars, minimaVars >>

\* Lines 369-385: one test of the halving loop, and the halving or the first
\* bracket that follows it.
HalvingProbe ==
  /\ rangePc = "halving"
  /\ \E b \in BOOLEAN :
       /\ Probed(temperatureGuess, b, "halving")
       /\ IF b
          THEN /\ rangeOfMaxTemperature'
                    = << temperatureGuess, Twice(temperatureGuess) >>
               /\ narrowingStep' = 0
               /\ rangePc' = IF 0 < temperatureAccuracy
                             THEN "narrowing"
                             ELSE "done"
               /\ UNCHANGED temperatureGuess
          ELSE /\ temperatureGuess' = Half(temperatureGuess)
               /\ UNCHANGED << rangeOfMaxTemperature, narrowingStep, rangePc >>
  /\ UNCHANGED << temperatureAccuracy, tunnelVars, nodeVars, minimaVars >>

\* Lines 384-402: one iteration of the narrowing loop.
NarrowingProbe ==
  /\ rangePc = "narrowing"
  /\ LET guess == GeometricMean(rangeOfMaxTemperature[1],
                                rangeOfMaxTemperature[2])
     IN  /\ temperatureGuess' = guess
         /\ \E b \in BOOLEAN :
              /\ Probed(guess, b, "narrowing")
              /\ rangeOfMaxTemperature'
                   = NarrowedRange(rangeOfMaxTemperature, guess, b)
  /\ narrowingStep' = narrowingStep + 1
  /\ rangePc' = IF narrowingStep + 1 < temperatureAccuracy
                THEN "narrowing"
                ELSE "done"
  /\ UNCHANGED << temperatureAccuracy, tunnelVars, nodeVars, minimaVars >>

----------------------------------------------------------------------------
(* NodesOnBisectingPlanes: the constructor                                 *)

\* Largest numberOfIntermediateNodes passed to the constructor.
MaxRequestedNodes == 17

\* Numbers of fields the path is built for.
FieldCounts == { 2, 3 }

\* Mutant of SizeLoop: the doubling stops when the argument is reached.
RECURSIVE SizeLoopUpTo(_, _, _)
SizeLoopUpTo(nodes, splits, requested) ==
  IF nodes < requested
  THEN SizeLoopUpTo(2 * nodes, splits + 1, requested)
  ELSE [ numberOfIntermediateNodes |-> nodes - 1, numberOfSplits |-> splits ]

\* Lines 24-31: numberOfIntermediateNodes is doubled from 1, counting the
\* splits, while it is not larger than the argument; then it is decremented.
RECURSIVE SizeLoop(_, _, _)
SizeLoop(nodes, splits, requested) ==
  IF nodes <= requested
  THEN SizeLoop(2 * nodes, splits + 1, requested)
  ELSE [ numberOfIntermediateNodes |-> nodes - 1, numberOfSplits |-> splits ]

\* Mutant of CurrentIndex: the segments of a split are taken one segment
\* apart, not two.
CurrentIndexOneApart(segmentSize, whichSegment) ==
  segmentSize * ( 1 + whichSegment )

\* Mutant of CurrentIndex: the segments are counted from the start of the
\* path, not from the middle of the first segment.
CurrentIndexFromStart(segmentSize, whichSegment) ==
  segmentSize * ( 2 * whichSegment )

\* Line 90: the index set for segment whichSegment of a split.
CurrentIndex(segmentSize, whichSegment) ==
  segmentSize * ( 1 + ( 2 * whichSegment ) )

\* Mutant of SideNodes: the side nodes are the adjacent path positions.
AdjacentNodes(currentIndex, segmentSize) ==
  << currentIndex - 1, currentIndex + 1 >>

\* Lines 92-94: the side nodes of the index set with the given segment size.
SideNodes(currentIndex, segmentSize) ==
  << currentIndex - segmentSize, currentIndex + segmentSize >>

\* Lines 85-95: the loop over the segments of one split, from whichSegment on.
RECURSIVE SegmentLoop(_, _, _, _)
SegmentLoop(whichSegment, newSegmentsInSplit, segmentSize, plan) ==
  IF whichSegment < newSegmentsInSplit
  THEN LET currentIndex == CurrentIndex(segmentSize, whichSegment)
       IN  SegmentLoop(whichSegment + 1, newSegmentsInSplit, segmentSize,
             [ adjustmentOrder |-> Append(plan.adjustmentOrder, currentIndex),
               sideNodeIndices |->
                 [ plan.sideNodeIndices EXCEPT
                     ![currentIndex] = SideNodes(currentIndex, segmentSize) ] ])
  ELSE plan

\* Lines 78-97: the loop over the splits, from splitCount on.
RECURSIVE SplitLoop(_, _, _, _, _)
SplitLoop(splitCount, splits, segmentSize, newSegmentsInSplit, plan) ==
  IF splitCount < splits
  THEN SplitLoop(splitCount + 1, splits, segmentSize \div 2,
                 2 * newSegmentsInSplit,
                 SegmentLoop(0, newSegmentsInSplit, segmentSize \div 2, plan))
  ELSE plan

\* The members the constructor leaves for the requested number of nodes.
ConstructedNodes(requested) ==
  LET size == SizeLoop(1, 0, requested)
      nodes == size.numberOfIntermediateNodes + 2
      plan == SplitLoop(0, size.numberOfSplits, nodes - 1, 1,
                [ adjustmentOrder |-> << >>,
                  sideNodeIndices |-> [ i \in 0..(nodes - 1) |-> << 0, 0 >> ] ])
  IN  [ numberOfIntermediateNodes |-> size.numberOfIntermediateNodes,
        numberOfSplits |-> size.numberOfSplits,
        pathNodesSize |-> nodes,
        adjustmentOrder |-> plan.adjustmentOrder,
        sideNodeIndices |-> plan.sideNodeIndices ]

\* No rotation matrix has been set.
NoRotation == [ startNode |-> << >>, endNode |-> << >>, referenceField |-> 0 ]

\* NodesOnBisectingPlanes::NodesOnBisectingPlanes
NodesOnBisectingPlanes ==
  /\ nodesPc = "unbuilt"
  /\ \E fields \in FieldCounts, requested \in 0..MaxRequestedNodes :
       LET built == ConstructedNodes(requested)
       IN  /\ numberOfFields' = fields
           /\ requestedNodes' = requested
           /\ numberOfIntermediateNodes' = built.numberOfIntermediateNodes
           /\ numberOfSplits' = built.numberOfSplits
           /\ pathNodesSize' = built.pathNodesSize
           /\ adjustmentOrder' = built.adjustmentOrder
           /\ sideNodeIndices' = built.sideNodeIndices
  /\ nodesPc' = "built"
  /\ UNCHANGED << rotationArgs, rotationMatrix, transformedNode,
                  tunnelVars, rangeVars, minimaVars >>

----------------------------------------------------------------------------
(* NodesOnBisectingPlanes::UpdateRotationMatrix                            *)
(* Matrix elements are exact fractions [n, d] in lowest terms with d > 0;  *)
(* the node pairs are chosen so that every square root taken is that of    *)
(* the square of a fraction.  d = 0 stands for the results of a division   *)
(* by zero: +infinity (n = 1), -infinity (n = -1), not-a-number (n = 0).   *)

RECURSIVE GreatestCommonDivisor(_, _)
GreatestCommonDivisor(a, b) ==
  IF b = 0 THEN a ELSE GreatestCommonDivisor(b, a % b)

Magnitude(i) == IF i < 0 THEN -i ELSE i

Fraction(n, d) ==
  LET g == GreatestCommonDivisor(Magnitude(n), Magnitude(d))
  IN  IF n = 0 /\ d = 0
      THEN [ n |-> 0, d |-> 0 ]
      ELSE IF d < 0
      THEN [ n |-> -(n \div g), d |-> -(d \div g) ]
      ELSE [ n |-> n \div g, d |-> d \div g ]

Whole(i) == Fraction(i, 1)
Plus(a, b) ==
  IF a.d = 0 /\ b.d = 0 /\ a.n = b.n
  THEN a
  ELSE Fraction(a.n * b.d + b.n * a.d, a.d * b.d)
Times(a, b) == Fraction(a.n * b.n, a.d * b.d)
Over(a, b) == Fraction(a.n * b.d, a.d * b.n)
Minus(a) == Fraction(-a.n, a.d)

\* The non-negative integer whose square is i.
WholeRoot(i) == CHOOSE root \in 0..i : root * root = i

\* sqrt( a ) for the square a of a fraction, +infinity or not-a-number.
Root(a) == Fraction(WholeRoot(a.n), WholeRoot(a.d))

\* A matrix element that has not been written.
Unwritten == [ n |-> 0, d |-> 0 ]

\* Line 171: endNode.front() - startNode.back()
FirstDifference(startNode, endNode) ==
  Whole(endNode[1] - startNode[Len(startNode)])

\* Lines 172-186: row 0 holds firstDifference in every column, and column
\* referenceField holds the differences of the nodes in rows 1 and up.  Rows
\* and columns are numbered from 0.
DifferencesFilled(fields, referenceField, startNode, endNode) ==
  [ rowIndex \in 0..(fields - 1) |->
      [ columnIndex \in 0..(fields - 1) |->
          IF rowIndex = 0
          THEN FirstDifference(startNode, endNode)
          ELSE IF columnIndex = referenceField
          THEN Whole(endNode[rowIndex + 1] - startNode[rowIndex + 1])
          ELSE Unwritten ] ]

\* Lines 187-229: the loop over the columns other than referenceField, from
\* columnIndex on; it returns the matrix and sumOfElementSquares.
RECURSIVE ColumnLoop(_, _, _, _, _)
ColumnLoop(columnIndex, fields, referenceField, sumOfElementSquares, matrix) ==
  IF columnIndex < fields - 1
  THEN LET columnInsertionIndex ==
             IF columnIndex >= referenceField
             THEN columnIndex + 1
             ELSE columnIndex
           diagonalNumerator == matrix[columnIndex][referenceField]
           inverseNextDiagonal ==
             Over(Whole(1), matrix[columnIndex + 1][referenceField])
           sum == Plus(sumOfElementSquares,
                       Times(diagonalNumerator, diagonalNumerator))
           inverseEuclideanLength ==
             Over(Whole(1),
                  Root(Times(sum,
                             Plus(Whole(1),
                                  Times(sum, Times(inverseNextDiagonal,
                                                   inverseNextDiagonal))))))
       IN  ColumnLoop(columnIndex + 1, fields, referenceField, sum,
             [ rowIndex \in 0..(fields - 1) |->
                 [ column \in 0..(fields - 1) |->
                     IF column # columnInsertionIndex \/ rowIndex = 0
                     THEN matrix[rowIndex][column]
                     ELSE IF rowIndex <= columnIndex
                     THEN Times(matrix[rowIndex][referenceField],
                                inverseEuclideanLength)
                     ELSE IF rowIndex = columnIndex + 1
                     THEN Over(Times(Minus(sum), inverseNextDiagonal),
                               inverseEuclideanLength)
                     ELSE Whole(0) ] ])
  ELSE [ matrix |-> matrix, sumOfElementSquares |-> sumOfElementSquares ]

\* Lines 167-241: the matrix UpdateRotationMatrix leaves.
UpdatedRotationMatrix(fields, referenceField, startNode, endNode) ==
  LET columns ==
        ColumnLoop(0, fields, referenceField, Whole(0),
                   DifferencesFilled(fields, referenceField,
                                     startNode, endNode))
      lastDiagonal == columns.matrix[fields - 1][referenceField]
      sum == Plus(columns.sumOfElementSquares,
                  Times(lastDiagonal, lastDiagonal))
      inverseEuclideanLength == Over(Whole(1), Root(sum))
  IN  [ rowIndex \in 0..(fields - 1) |->
          [ column \in 0..(fields - 1) |->
              IF column = referenceField
              THEN Times(columns.matrix[rowIndex][column],
                         inverseEuclideanLength)
              ELSE columns.matrix[rowIndex][column] ] ]

\* Pairs of side nodes << startNode, endNode >> whose difference has a zero
\* in its last component.
ZeroDifferenceInputs(fields) ==
  IF fields = 2
  THEN { << << 0, 0 >>, << 3, 0 >> >> }
  ELSE { << << 0, 0, 0 >>, << 3, 4, 0 >> >> }

\* Pairs of side nodes << startNode, endNode >> whose difference has no zero
\* component.
SideNodeInputs(fields) ==
  IF fields = 2
  THEN { << << 0, 0 >>, << 3, 4 >> >>,
         << << 0, 0 >>, << 4, 3 >> >>,
         << << 0, 0 >>, << -3, 4 >> >>,
         << << 0, 0 >>, << 5, 12 >> >>,
         << << 2, 2 >>, << 5, -2 >> >>,
         << << 1, -2 >>, << 6, 4 >> >> }
  ELSE { << << 0, 0, 0 >>, << 3, 4, 12 >> >>,
         << << 0, 0, 0 >>, << 4, 3, 12 >> >>,
         << << 0, 0, 0 >>, << -3, 4, -12 >> >>,
         << << 1, 1, -1 >>, << 2, 5, 11 >> >> }

\* NodesOnBisectingPlanes::UpdateRotationMatrix for a node of the path, with
\* the side nodes and the reference field as they stand.
UpdateRotationMatrix ==
  /\ nodesPc = "built"
  /\ numberOfIntermediateNodes >= 1
  /\ \E sides \in SideNodeInputs(numberOfFields)
                     \cup ZeroDifferenceInputs(numberOfFields),
        referenceField \in 0..(numberOfFields - 1) :
       /\ rotationArgs' = [ startNode |-> sides[1], endNode |-> sides[2],
                            referenceField |-> referenceField ]
       /\ rotationMatrix' = UpdatedRotationMatrix(numberOfFields,
                              referenceField, sides[1], sides[2])
  /\ UNCHANGED << nodesPc, numberOfFields, requestedNodes,
                  numberOfIntermediateNodes, numberOfSplits, pathNodesSize,
                  adjustmentOrder, sideNodeIndices, transformedNode,
                  tunnelVars, rangeVars, minimaVars >>

\* Mutant of NodeInPlane: the zero is put in slot 0 whatever the reference
\* field.
NodeInPlaneZeroFirst(fields, referenceField, nodeParameterization) ==
  [ fieldIndex \in 0..(fields - 1) |->
      IF fieldIndex = 0
      THEN Whole(0)
      ELSE Whole(nodeParameterization[fieldIndex]) ]

\* Lines 120-133: nodeInPlane, the parameterization with a zero inserted at
\* referenceField.  (nodeParameterization[ i ] of the code is element i + 1
\* of the sequence.)
NodeInPlane(fields, referenceField, nodeParameterization) ==
  [ fieldIndex \in 0..(fields - 1) |->
      IF fieldIndex < referenceField
      THEN Whole(nodeParameterization[fieldIndex + 1])
      ELSE IF fieldIndex > referenceField
      THEN Whole(nodeParameterization[fieldIndex])
      ELSE Whole(0) ]

\* Element rowIndex of matrix * vector, summed over columns 0..column.
RECURSIVE RowTimesVector(_, _, _, _)
RowTimesVector(matrix, vector, rowIndex, column) ==
  LET term == Times(matrix[rowIndex][column], vector[column])
  IN  IF column = 0
      THEN term
      ELSE Plus(RowTimesVector(matrix, vector, rowIndex, column - 1), term)

\* Lines 120-141: the nodeVector AddTransformedNode leaves.
TransformedNodeAdded(nodeVector, fields, referenceField, matrix, nodeParameterization) ==
  LET nodeInPlane == NodeInPlane(fields, referenceField, nodeParameterization)
  IN  [ fieldIndex \in 0..(fields - 1) |->
          Plus(Whole(nodeVector[fieldIndex + 1]),
               RowTimesVector(matrix, nodeInPlane, fieldIndex, fields - 1)) ]

\* Node vectors AddTransformedNode adds to.
NodeVectorInputs(fields) ==
  IF fields = 2
  THEN { << 0, 0 >>, << 1, -3 >> }
  ELSE { << 0, 0, 0 >>, << 1, -3, 2 >> }

\* Parameterizations of a node in its plane: one number per field but one.
NodeParameterizationInputs(fields) ==
  IF fields = 2
  THEN { << 2 >>, << -1 >> }
  ELSE { << 2, -1 >>, << 1, 3 >> }

\* No node has been transformed.
NoTransformedNode ==
  [ nodeVector |-> << >>, nodeParameterization |-> << >>, result |-> << >> ]

\* NodesOnBisectingPlanes::AddTransformedNode for a node whose rotation
\* matrix has been set.
AddTransformedNode ==
  /\ nodesPc = "built"
  /\ rotationMatrix # << >>
  /\ \E nodeVector \in NodeVectorInputs(numberOfFields),
        nodeParameterization \in NodeParameterizationInputs(numberOfFields) :
       transformedNode'
         = [ nodeVector |-> nodeVector,
             nodeParameterization |-> nodeParameterization,
             result |-> TransformedNodeAdded(nodeVector, numberOfFields,
                          rotationArgs.referenceField, rotationMatrix,
                          nodeParameterization) ]
  /\ UNCHANGED << nodesPc, numberOfFields, requestedNodes,
                  numberOfIntermediateNodes, numberOfSplits, pathNodesSize,
                  adjustmentOrder, sideNodeIndices, rotationArgs,
                  rotationMatrix, tunnelVars, rangeVars, minimaVars >>

----------------------------------------------------------------------------
(* GradientFromStartingPoints::FindMinima                                  *)
(* (src/source/PotentialMinimization/GradientFromStartingPoints.cpp).      *)
(* Field configurations have one field and are integers; a               *)
(* PotentialMinimum is its field, FunctionValue and FunctionError.         *)

\* Calls of FindMinima on one instance.
MaxFindMinimaCalls == 2

\* Minima recorded in foundMinima by all the calls.
MaxFoundMinima == 2

\* Iterations of the loop on a NaN minimum (lines 110-128).
MaxRetries == 3

\* potentialFunction.DsbFieldValues()
DsbFieldValues == 6

\* Constructor arguments (lines 21-22): a separation fraction of 1/2 and a
\* scaling factor of 2.
extremumSeparationThresholdFraction == Fraction(1, 2)
nonDsbRollingToDsbScalingFactor == 2

\* The temperatures FindMinima is called with.
MinimizationTemperatures == { 0, 1 }

PotentialMinimum(field, value, error) ==
  [ field |-> field, value |-> value, error |-> error ]

\* A default-constructed PotentialMinimum.
NoMinimum == PotentialMinimum(0, IntD(0), IntD(0))

\* What gradientMinimizer can return: the DSB vacuum, its sign flip at a
\* lower value, minima at several depths and distances, a minimum that is
\* lower only within its error, and minima with a NaN value or a NaN error.
MinimizerOutputs ==
  { PotentialMinimum(6, IntD(0), IntD(0)),
    PotentialMinimum(-6, IntD(-1), IntD(0)),
    PotentialMinimum(12, IntD(-1), IntD(0)),
    PotentialMinimum(0, IntD(-2), IntD(0)),
    PotentialMinimum(20, IntD(-2), IntD(0)),
    PotentialMinimum(12, IntD(-1), IntD(1)),
    PotentialMinimum(12, NaN, IntD(0)),
    PotentialMinimum(12, IntD(-1), NaN) }

\* What startingPointFinder can put into startingPoints.
StartingPointInputs == { << >>, << 10 >>, << 5, 10 >> }

\* No minimization has run.
NoMinimization == [ point |-> 0, temperature |-> -1, minimum |-> NoMinimum ]

\* GradientMinimizer::operator() (part_002 line 28, a const function of the
\* starting point at the temperature set): any output, but the output of
\* the minimization just before when point and temperature are the same.
Minimized(last, point, temperature) ==
  IF last.point = point /\ last.temperature = temperature
  THEN { last.minimum }
  ELSE MinimizerOutputs

\* std::isnan of the function value or of the function error (line 110)
FoundNaN(minimum) == minimum.value.k = "nan" \/ minimum.error.k = "nan"

\* a + b for potential values
Added(a, b) ==
  IF a.k = "nan" \/ b.k = "nan" THEN NaN ELSE IntD(a.v + b.v)

\* a < b for fractions
Below(a, b) == a.n * b.d < b.n * a.d

\* Lines 65-68: thresholdSeparationSquared
ThresholdSeparationSquared(dsb) ==
  Plus(Times(Times(extremumSeparationThresholdFraction,
                   extremumSeparationThresholdFraction),
             Whole(LengthSquared(dsb.field))),
       Whole(1))

\* PotentialMinimizer::IsNotPhaseRotationOfDsbVacuum: the absolute values of
\* the fields differ by more than thresholdSeparation.
IsNotPhaseRotationOfDsbVacuum(comparisonVacuum, dsb) ==
  Below(ThresholdSeparationSquared(dsb),
        Whole(LengthSquared(Magnitude(comparisonVacuum.field)
                              - Magnitude(dsb.field))))

\* Lines 134-138 and 179-183: rolledToDsbOrSignFlip
RolledToDsbOrSignFlip(found, dsb) ==
  \/ Below(Whole(SquareDistanceTo(found.field, dsb.field)),
           ThresholdSeparationSquared(dsb))
  \/ ~IsNotPhaseRotationOfDsbVacuum(found, dsb)

\* Lines 152-169: the starting point is rolled again from a scaled point.
RollsAgain(found, dsb, point) ==
  /\ RolledToDsbOrSignFlip(found, dsb)
  /\ Below(ThresholdSeparationSquared(dsb),
           Whole(SquareDistanceTo(dsb.field, point)))
  /\ Below(ThresholdSeparationSquared(dsb), Whole(point * point))

\* Lines 117-124: the starting point with every field times 0.8
ScaledPoint(point) == ( 4 * point ) \div 5

\* Lines 196-199: the minimum is recorded as a panic vacuum.
LowerThanDsb(found, dsb) ==
  /\ Less(Added(found.value, found.error), dsb.value)
  /\ ~RolledToDsbOrSignFlip(found, dsb)

\* Lines 210-213 with the comparison not strict.
ReplacesNearestOnTie(found, nearest, dsb, vacua) ==
  \/ vacua = << >>
  \/ SquareDistanceTo(found.field, dsb.field)
       <= SquareDistanceTo(nearest.field, dsb.field)

\* Lines 210-213: the minimum becomes panicVacuum_nearest.
ReplacesNearest(found, nearest, dsb, vacua) ==
  \/ vacua = << >>
  \/ SquareDistanceTo(found.field, dsb.field)
       < SquareDistanceTo(nearest.field, dsb.field)

\* Lines 202-205: the minimum becomes panicVacuum_global.
ReplacesGlobal(found, global, vacua) ==
  \/ vacua = << >>
  \/ Less(found.value, global.value)

\* Line 85 without the test of done_homotopy.
FinderRunsAlways(done) == TRUE

\* Line 85: startingPointFinder runs.
FinderRuns(done) == ~done

\* GradientFromStartingPoints::FindMinima up to the loop over the starting
\* points (lines 52-96): the temperature is set, the DSB vacuum is rolled
\* and the starting points are found if they have not been.
FindMinima ==
  /\ minimaPc = "idle"
  /\ findMinimaCalls < MaxFindMinimaCalls
  /\ \E temperature \in MinimizationTemperatures,
        found \in StartingPointInputs :
       \E rolled \in Minimized(lastMinimization, DsbFieldValues,
                               temperature) :
         /\ minimizationTemperature' = temperature
         /\ minimizerTemperature' = temperature
         /\ dsbVacuum' = rolled
         /\ lastMinimization'
              = [ point |-> DsbFieldValues, temperature |-> temperature,
                  minimum |-> rolled ]
         /\ startingPoints'
              = IF FinderRuns(done_homotopy) THEN found ELSE startingPoints
         /\ finderCalls'
              = IF FinderRuns(done_homotopy)
                THEN finderCalls + 1
                ELSE finderCalls
  /\ done_homotopy' = TRUE
  /\ findMinimaCalls' = findMinimaCalls + 1
  /\ realSolution' = 1
  /\ foundMinimum' = NoMinimum
  /\ retries' = 0
  /\ minimaPc' = IF startingPoints' = << >> THEN "idle" ELSE "rolling"
  /\ UNCHANGED << global_Is_Panic, foundMinima, panicVacua, panicVacuum,
                  panicVacuum_global, panicVacuum_nearest, tunnelVars,
                  rangeVars, nodeVars >>

\* Lines 134-229 and the step of the loop (line 96): found is the minimum
\* the starting point rolled to, minimization the minimization that gave it.
RecordMinimum(found, minimization) ==
  LET point == startingPoints[realSolution]
      again == RollsAgain(found, dsbVacuum, point)
      scaledPoint == nonDsbRollingToDsbScalingFactor * point
  IN  \E rolled \in ( IF again
                      THEN Minimized(minimization, scaledPoint,
                                     minimizerTemperature)
                      ELSE { found } ) :
        LET lower == LowerThanDsb(rolled, dsbVacuum)
            global == IF lower /\ ReplacesGlobal(rolled, panicVacuum_global,
                                                 panicVacua)
                      THEN rolled
                      ELSE panicVacuum_global
            nearest == IF lower /\ ReplacesNearest(rolled,
                                     panicVacuum_nearest, dsbVacuum,
                                     panicVacua)
                       THEN rolled
                       ELSE panicVacuum_nearest
        IN  /\ lastMinimization'
                 = IF again
                   THEN [ point |-> scaledPoint,
                          temperature |-> minimizerTemperature,
                          minimum |-> rolled ]
                   ELSE minimization
            /\ foundMinimum' = rolled
            /\ foundMinima' = Append(foundMinima, rolled)
            /\ panicVacuum_global' = global
            /\ panicVacuum_nearest' = nearest
            /\ panicVacua'
                 = IF lower THEN Append(panicVacua, rolled) ELSE panicVacua
            /\ panicVacuum'
                 = IF ~lower THEN panicVacuum
                   ELSE IF global_Is_Panic THEN global
                   ELSE nearest
            /\ retries' = 0
            /\ realSolution' = realSolution + 1
            /\ minimaPc' = IF realSolution = Len(startingPoints)
                           THEN "idle"
                           ELSE "rolling"

\* Line 103 and, when the minimum is not NaN, the rest of the iteration.
RollFromStartingPoint ==
  /\ minimaPc = "rolling"
  /\ Len(foundMinima) < MaxFoundMinima
  /\ \E found \in Minimized(lastMinimization, startingPoints[realSolution],
                            minimizerTemperature) :
       LET minimization == [ point |-> startingPoints[realSolution],
                             temperature |-> minimizerTemperature,
                             minimum |-> found ]
       IN  IF FoundNaN(found)
           THEN /\ minimaPc' = "retrying"
                /\ foundMinimum' = found
                /\ lastMinimization' = minimization
                /\ UNCHANGED << foundMinima, panicVacua, panicVacuum,
                                panicVacuum_global, panicVacuum_nearest,
                                realSolution, retries >>
           ELSE RecordMinimum(found, minimization)
  /\ UNCHANGED << minimizationTemperature, minimizerTemperature,
                  global_Is_Panic, done_homotopy, startingPoints, dsbVacuum,
                  findMinimaCalls, finderCalls, tunnelVars, rangeVars,
                  nodeVars >>

\* One iteration of the loop of lines 110-128 and, when the minimum is not
\* NaN, the rest of the iteration over the starting points.
RollFromScaledPoint ==
  /\ minimaPc = "retrying"
  /\ retries < MaxRetries
  /\ Len(foundMinima) < MaxFoundMinima
  /\ LET scaledPoint == ScaledPoint(startingPoints[realSolution])
     IN  \E found \in Minimized(lastMinimization, scaledPoint,
                                minimizerTemperature) :
           LET minimization == [ point |-> scaledPoint,
                                 temperature |-> minimizerTemperature,
                                 minimum |-> found ]
           IN  IF FoundNaN(found)
               THEN /\ retries' = retries + 1
                    /\ foundMinimum' = found
                    /\ lastMinimization' = minimization
                    /\ UNCHANGED << minimaPc, foundMinima, panicVacua,
                                    panicVacuum, panicVacuum_global,
                                    panicVacuum_nearest, realSolution >>
               ELSE RecordMinimum(found, minimization)
  /\ UNCHANGED << minimizationTemperature, minimizerTemperature,
                  global_Is_Panic, done_homotopy, startingPoints, dsbVacuum,
                  findMinimaCalls, finderCalls, tunnelVars, rangeVars,
                  nodeVars >>

\* GradientFromStartingPoints::setWhichPanicVacuum (lines 272-278), between
\* calls of FindMinima.
setWhichPanicVacuum ==
  /\ minimaPc = "idle"
  /\ \E global_Is_Panic_setting \in BOOLEAN :
       global_Is_Panic' = global_Is_Panic_setting
  /\ UNCHANGED << minimaPc, minimizationTemperature, minimizerTemperature,
                  lastMinimization, done_homotopy, startingPoints, dsbVacuum,
                  foundMinima, panicVacua, panicVacuum, panicVacuum_global,
                  panicVacuum_nearest, realSolution, foundMinimum, retries,
                  findMinimaCalls, finderCalls, tunnelVars, rangeVars,
                  nodeVars >>

----------------------------------------------------------------------------
(* Specifications                                                          *)

\* A member the constructor leaves uninitialised.
Uninitialised == [ k |-> "uninitialised", v |-> 0 ]

\* No search for a temperature range has started.
RangeIdle ==
  /\ rangePc = "idle"
  /\ temperatureGuess = Zero
  /\ rangeOfMaxTemperature = << Zero, Zero >>
  /\ narrowingStep = 0
  /\ belowCritical = { }
  /\ probes = << >>

\* No NodesOnBisectingPlanes object has been constructed.
NodesUnbuilt ==
  /\ nodesPc = "unbuilt"
  /\ numberOfFields = 0
  /\ requestedNodes = 0
  /\ numberOfIntermediateNodes = 0
  /\ numberOfSplits = 0
  /\ pathNodesSize = 0
  /\ adjustmentOrder = << >>
  /\ sideNodeIndices = << >>
  /\ rotationArgs = NoRotation
  /\ rotationMatrix = << >>
  /\ transformedNode = NoTransformedNode

\* A GradientFromStartingPoints object after construction (lines 17-33).
MinimaFresh ==
  /\ minimaPc = "idle"
  /\ minimizationTemperature = 0
  /\ minimizerTemperature = 0
  /\ lastMinimization = NoMinimization
  /\ global_Is_Panic = FALSE
  /\ done_homotopy = FALSE
  /\ startingPoints = << >>
  /\ dsbVacuum = NoMinimum
  /\ foundMinima = << >>
  /\ panicVacua = << >>
  /\ panicVacuum = NoMinimum
  /\ panicVacuum_global = NoMinimum
  /\ panicVacuum_nearest = NoMinimum
  /\ realSolution = 1
  /\ foundMinimum = NoMinimum
  /\ retries = 0
  /\ findMinimaCalls = 0
  /\ finderCalls = 0

\* The tunneler after construction: the result fields hold "not calculated".
Init ==
  /\ tunnelingStrategy \in TunnelingStrategies
  /\ survivalProbabilityThreshold \in ThresholdInputs
  /\ quantumSurvivalProbability = NotCalculated
  /\ quantumLifetimeInSeconds = NotCalculated
  /\ thermalSurvivalProbability = NotCalculated
  /\ partialThermalDecayWidth = NotCalculated
  /\ dominantTemperatureInGigaElectronVolts = NotCalculated
  /\ logOfMinusLogOfQuantumProbability = Uninitialised
  /\ logOfMinusLogOfThermalProbability = Uninitialised
  /\ pc = "idle"
  /\ args = NoArguments
  /\ quantumAction = Uninitialised
  /\ outcome = "none"
  /\ calls = << >>
  /\ warnings = << >>
  /\ temperatureAccuracy = MaxTemperatureAccuracy
  /\ RangeIdle
  /\ NodesUnbuilt
  /\ MinimaFresh

Next ==
  \/ CalculateTunneling
  \/ CalculateQuantumTunneling
  \/ CalculateThermalTunneling

Spec == Init /\ [][Next]_vars

\* The tunneler after construction with any temperatureAccuracy, for the
\* search of a temperature range.
InitRange ==
  /\ tunnelingStrategy = "JustThermal"
  /\ survivalProbabilityThreshold = IntD(0)
  /\ quantumSurvivalProbability = NotCalculated
  /\ quantumLifetimeInSeconds = NotCalculated
  /\ thermalSurvivalProbability = NotCalculated
  /\ partialThermalDecayWidth = NotCalculated
  /\ dominantTemperatureInGigaElectronVolts = NotCalculated
  /\ logOfMinusLogOfQuantumProbability = Uninitialised
  /\ logOfMinusLogOfThermalProbability = Uninitialised
  /\ pc = "idle"
  /\ args = NoArguments
  /\ quantumAction = Uninitialised
  /\ outcome = "none"
  /\ calls = << >>
  /\ warnings = << >>
  /\ temperatureAccuracy \in 0..MaxTemperatureAccuracy
  /\ RangeIdle
  /\ NodesUnbuilt
  /\ MinimaFresh

NextRange ==
  \/ SetMaximumTunnelingTemperatureRange
  \/ DoublingProbe
  \/ CapProbe
  \/ HalvingProbe
  \/ NarrowingProbe

SpecRange == InitRange /\ [][NextRange]_vars

NextNodes ==
  \/ NodesOnBisectingPlanes
  \/ UpdateRotationMatrix
  \/ AddTransformedNode

\* One tunneler after construction and no NodesOnBisectingPlanes object yet.
InitNodes ==
  /\ InitRange
  /\ temperatureAccuracy = MaxTemperatureAccuracy

SpecNodes == InitNodes /\ [][NextNodes]_vars

NextMinima ==
  \/ FindMinima
  \/ RollFromStartingPoint
  \/ RollFromScaledPoint
  \/ setWhichPanicVacuum

\* One tunneler and one GradientFromStartingPoints object after construction.
SpecMinima == InitNodes /\ [][NextMinima]_vars

----------------------------------------------------------------------------
(* Properties of CalculateTunneling (specification Spec)                   *)

\* The calculations the current call has run, in order.
Calculations ==
  SelectSeq(calls, LAMBDA c : c \in { "CalculateQuantumTunneling",
                                      "CalculateThermalTunneling" })

\* The zero-temperature potential at the vacua and the origin, for the
\* arguments of the current call.
PotentialAtFalseVacuum == args.potentialFunction[args.falseVacuum]
PotentialAtTrueVacuum == args.potentialFunction[args.trueVacuum]
PotentialAtOrigin == args.potentialFunction[fieldOrigin]

\* The true vacuum is strictly lower than the false vacuum.
StrictlyDownhill ==
  /\ PotentialAtTrueVacuum.k = "int"
  /\ PotentialAtFalseVacuum.k = "int"
  /\ PotentialAtTrueVacuum.v < PotentialAtFalseVacuum.v

AllNotCalculated ==
  /\ quantumSurvivalProbability = IntD(-1)
  /\ quantumLifetimeInSeconds = IntD(-1)
  /\ thermalSurvivalProbability = IntD(-1)
  /\ partialThermalDecayWidth = IntD(-1)
  /\ dominantTemperatureInGigaElectronVolts = IntD(-1)

IsNegative(x) == (x.k = "int" /\ x.v < 0) \/ x.k = "negmag"

\* C1: for every strategy, CalculateTunneling throws exactly when the
\* potential at trueVacuum is not strictly lower than at falseVacuum; when it
\* throws, neither PrepareCommonExtras nor a calculation has been called, and
\* the step that throws leaves the five result fields as they were.
C1_ThrowsUnlessDownhill ==
  /\ [] ( outcome # "none" =>
            /\ (outcome = "threw") <=> ~StrictlyDownhill
            /\ outcome = "threw" => calls = << >> /\ pc = "idle" )
  /\ [][ outcome' = "threw" => resultFields' = resultFields ]_vars

\* A call that throws for vacua of equal depth while the fields hold the
\* results of an earlier call.
C1_Witness ==
  /\ outcome = "threw"
  /\ PotentialAtTrueVacuum = PotentialAtFalseVacuum
  /\ PotentialAtTrueVacuum # NaN
  /\ quantumSurvivalProbability # IntD(-1)
  /\ thermalSurvivalProbability # IntD(-1)

\* C2: with NoTunneling and a downhill direction, CalculateTunneling calls
\* neither calculation and returns with all five result fields at -1.
C2_NoTunnelingComputesNothing ==
  tunnelingStrategy = "NoTunneling" /\ outcome # "none" /\ StrictlyDownhill =>
    /\ outcome = "returned"
    /\ Calculations = << >>
    /\ AllNotCalculated

C2_Witness ==
  /\ tunnelingStrategy = "NoTunneling"
  /\ outcome = "returned"
  /\ StrictlyDownhill

\* C3: JustQuantum runs exactly one quantum and no thermal calculation and
\* returns with the thermal fields negative; JustThermal runs exactly one
\* thermal and no quantum calculation and returns with the quantum fields
\* negative.
C3_SingleStageStrategies ==
  outcome = "returned" =>
    /\ tunnelingStrategy = "JustQuantum" =>
         /\ Calculations = << "CalculateQuantumTunneling" >>
         /\ IsNegative(thermalSurvivalProbability)
         /\ IsNegative(dominantTemperatureInGigaElectronVolts)
         /\ IsNegative(partialThermalDecayWidth)
    /\ tunnelingStrategy = "JustThermal" =>
         /\ Calculations = << "CalculateThermalTunneling" >>
         /\ IsNegative(quantumSurvivalProbability)
         /\ IsNegative(quantumLifetimeInSeconds)

\* JustThermal has returned with a computed thermal probability.
C3_Witness ==
  /\ tunnelingStrategy = "JustThermal"
  /\ outcome = "returned"
  /\ thermalSurvivalProbability.k = "expneg"
  /\ quantumSurvivalProbability = IntD(-1)

\* C4: in a two-stage strategy the calculations run are a prefix of
\* (first stage, second stage), the first stage has run once the call has
\* returned, and the second stage is called exactly when the first stage's
\* survival probability is strictly greater than the threshold.
C4_TwoStageOrder ==
  /\ tunnelingStrategy = "QuantumThenThermal" /\ outcome \in { "running", "returned" } =>
       /\ Calculations \in { << >>, << "CalculateQuantumTunneling" >>,
                             << "CalculateQuantumTunneling",
                                "CalculateThermalTunneling" >> }
       /\ Calculations = << >> <=> pc = "callQuantum"
       /\ Calculations # << >> =>
            ( ( pc = "callThermalAfterQuantum" \/ Len(Calculations) = 2 )
              <=> Less(survivalProbabilityThreshold,
                       quantumSurvivalProbability) )
  /\ tunnelingStrategy = "ThermalThenQuantum" /\ outcome \in { "running", "returned" } =>
       /\ Calculations \in { << >>, << "CalculateThermalTunneling" >>,
                             << "CalculateThermalTunneling",
                                "CalculateQuantumTunneling" >> }
       /\ Calculations = << >> <=> pc = "callThermal"
       /\ Calculations # << >> =>
            ( ( pc = "callQuantumAfterThermal" \/ Len(Calculations) = 2 )
              <=> Less(survivalProbabilityThreshold,
                       thermalSurvivalProbability) )

\* ThermalThenQuantum has run both stages, the thermal probability lying
\* strictly between the threshold and 1.
C4_Witness ==
  /\ tunnelingStrategy = "ThermalThenQuantum"
  /\ outcome = "returned"
  /\ Calculations = << "CalculateThermalTunneling",
                       "CalculateQuantumTunneling" >>
  /\ thermalSurvivalProbability.k = "expneg"


\* The doubles that lie in the closed interval [0, 1].
InUnitInterval(x) ==
  \/ x.k = "expneg"
  \/ x.k = "int" /\ x.v \in {0, 1}

Called(operation) == \E i \in 1..Len(calls) : calls[i] = operation

WarningsOf(path) == SelectSeq(warnings, LAMBDA w : w.path = path)

\* C5: after a CalculateTunneling call that returned, the quantum and the
\* thermal survival probability each lie in [0, 1] or hold the sentinel -1.
C5_ProbabilitiesInRange ==
  outcome = "returned" =>
    /\ InUnitInterval(quantumSurvivalProbability)
         \/ quantumSurvivalProbability = IntD(-1)
    /\ InUnitInterval(thermalSurvivalProbability)
         \/ thermalSurvivalProbability = IntD(-1)

\* Both calculations have run in the normal regime: both probabilities lie
\* strictly between 0 and 1.
C5_Witness ==
  /\ outcome = "returned"
  /\ quantumSurvivalProbability.k = "expneg"
  /\ thermalSurvivalProbability.k = "expneg"

\* C6: a bounce action at or beyond +maximumPowerOfNaturalExponent gives the
\* quantum probability 1, at or beyond -maximumPowerOfNaturalExponent it gives
\* 0; a thermal exponent at or beyond +maximumPowerOfNaturalExponent gives the
\* thermal probability 0, at or beyond -maximumPowerOfNaturalExponent it gives
\* 1; the call does not throw and the probability is not NaN.
C6_Saturation ==
  /\ Called("CalculateQuantumTunneling") =>
       /\ outcome # "threw"
       /\ quantumAction.v >= maximumPowerOfNaturalExponent =>
            quantumSurvivalProbability = IntD(1)
       /\ quantumAction.v <= -maximumPowerOfNaturalExponent =>
            quantumSurvivalProbability = IntD(0)
       /\ quantumSurvivalProbability # NaN
  /\ Called("SetThermalSurvivalProbability") =>
       /\ outcome # "threw"
       /\ logOfMinusLogOfThermalProbability.v >= maximumPowerOfNaturalExponent =>
            thermalSurvivalProbability = IntD(0)
       /\ logOfMinusLogOfThermalProbability.v <= -maximumPowerOfNaturalExponent =>
            thermalSurvivalProbability = IntD(1)
       /\ thermalSurvivalProbability # NaN

\* One call has saturated the quantum probability at 1 and the thermal
\* probability at 1 (action beyond the bound, exponent beyond minus the bound).
C6_Witness ==
  /\ outcome = "returned"
  /\ Called("CalculateQuantumTunneling")
  /\ Called("SetThermalSurvivalProbability")
  /\ quantumAction.v > maximumPowerOfNaturalExponent
  /\ logOfMinusLogOfThermalProbability.v < -maximumPowerOfNaturalExponent
  /\ quantumSurvivalProbability = IntD(1)
  /\ thermalSurvivalProbability = IntD(1)

\* The regime of an action or exponent x held as an integer-valued double.
LargePositive(x) == x.v >= maximumPowerOfNaturalExponent
LargeNegative(x) == x.v <= -maximumPowerOfNaturalExponent

\* C7: the quantum, thermal and partial-width paths apply the saturation rule
\* alike: in the large-positive and the large-negative regime each path stores
\* a saturated extreme (never the sentinel -1) and logs a warning; in the
\* normal regime with no overflow each path stores the computed value and
\* logs no warning.
C7_SaturationAppliedAlike ==
  /\ Called("CalculateQuantumTunneling") =>
       IF LargePositive(quantumAction) \/ LargeNegative(quantumAction)
       THEN /\ quantumSurvivalProbability \in { IntD(0), IntD(1) }
            /\ WarningsOf("quantum") # << >>
       ELSE quantumSurvivalProbability = IntD(0)
              \/ WarningsOf("quantum") = << >>
  /\ Called("SetThermalSurvivalProbability") =>
       IF \/ LargePositive(logOfMinusLogOfThermalProbability)
          \/ LargeNegative(logOfMinusLogOfThermalProbability)
       THEN /\ thermalSurvivalProbability \in { IntD(0), IntD(1) }
            /\ WarningsOf("thermal") # << >>
       ELSE thermalSurvivalProbability = IntD(0)
              \/ WarningsOf("thermal") = << >>
  /\ Called("SetPartialThermalDecayWidth") =>
       IF \/ LargePositive(logOfMinusLogOfThermalProbability)
          \/ LargeNegative(logOfMinusLogOfThermalProbability)
       THEN /\ partialThermalDecayWidth # IntD(-1)
            /\ WarningsOf("width") # << >>
       ELSE partialThermalDecayWidth = Mag(LnCappedLifetime)
              \/ WarningsOf("width") = << >>

\* C8: when CalculateThermalTunneling has run for a false vacuum that lies
\* strictly above the field origin and did not roll to it, the thermal
\* probability and the dominant temperature are 0, the thermal path has logged
\* exactly one warning and neither the bracketing nor
\* ContinueThermalTunneling was called; in every other case the bracketing
\* and then ContinueThermalTunneling follow the call directly.
C8_ThermalExclusion ==
  \A i \in 1..Len(calls) :
    calls[i] = "CalculateThermalTunneling" =>
      IF /\ PotentialAtFalseVacuum.v > PotentialAtOrigin.v
         /\ ~( 4 * args.falseVacuum * args.falseVacuum
                 < (args.falseVacuum - args.trueVacuum)
                     * (args.falseVacuum - args.trueVacuum) )
      THEN /\ thermalSurvivalProbability = IntD(0)
           /\ dominantTemperatureInGigaElectronVolts = IntD(0)
           /\ WarningsOf("thermal")
                = << Warning("thermal", "DSB above origin") >>
           /\ ~Called("SetUpMaximumTemperatureRanges")
           /\ ~Called("ContinueThermalTunneling")
      ELSE /\ Len(calls) >= i + 2
           /\ calls[i + 1] = "SetUpMaximumTemperatureRanges"
           /\ calls[i + 2] = "ContinueThermalTunneling"

\* The thermal calculation has run for a false vacuum above the origin that
\* did not roll to it.
C8_Witness ==
  /\ Called("CalculateThermalTunneling")
  /\ PotentialAtFalseVacuum.v > PotentialAtOrigin.v
  /\ args.falseVacuum = -2
  /\ thermalSurvivalProbability = IntD(0)
  /\ ~Called("ContinueThermalTunneling")

----------------------------------------------------------------------------
(* Properties of SetMaximumTunnelingTemperatureRange (specification        *)
(* SpecRange)                                                              *)

\* BelowCriticalTemperature has been called at temperature t and answered b.
EvaluatedAs(t, b) == [t |-> t, b |-> b] \in belowCritical

\* The bracket is set: a narrowing iteration is about to run, or the search
\* has returned.
BracketSet == rangePc \in { "narrowing", "done" }

\* The statement of C9 as claimed: whenever the bracket is set, its low end
\* was evaluated below critical and its high end was evaluated not below
\* critical.
C9_LowBelowHighNotBelow ==
  BracketSet =>
    /\ EvaluatedAs(rangeOfMaxTemperature[1], TRUE)
    /\ EvaluatedAs(rangeOfMaxTemperature[2], FALSE)

\* C9: whenever the bracket is set (at every narrowing iteration and at the
\* return), its low end was evaluated below critical; its high end was
\* evaluated not below critical unless the two ends are equal, which is the
\* case for the bracket (cap, cap) and for the bracket (0, 0) left by
\* underflow, whose single temperature was evaluated below critical.
C9_LowBelowHighNotBelowUnlessEqual ==
  BracketSet =>
    /\ EvaluatedAs(rangeOfMaxTemperature[1], TRUE)
    /\ rangeOfMaxTemperature[1] # rangeOfMaxTemperature[2] =>
         EvaluatedAs(rangeOfMaxTemperature[2], FALSE)

\* The search has returned a bracket with distinct ends after
\* MaxTemperatureAccuracy narrowing iterations.
C9_Witness ==
  /\ rangePc = "done"
  /\ temperatureAccuracy = MaxTemperatureAccuracy
  /\ narrowingStep = temperatureAccuracy
  /\ rangeOfMaxTemperature[1].k = "pow2"
  /\ rangeOfMaxTemperature[2].k = "pow2"
  /\ rangeOfMaxTemperature[1] # rangeOfMaxTemperature[2]

\* C10: a test of the doubling loop that answers "below" at a guess whose
\* double reaches or exceeds maximumAllowedTemperature is followed by a test
\* at maximumAllowedTemperature itself; when that test answers "below" it is
\* the last test of the search, which has returned (cap, cap).
C10_CapInDoubling ==
  \A i \in 1..Len(probes) :
    /\ ( /\ probes[i].phase = "doubling"
         /\ probes[i].b
         /\ probes[i].t.k = "pow2"
         /\ probes[i].t.v + TicksPerOctave >= maximumAllowedTemperature.v ) =>
         IF i < Len(probes)
         THEN /\ probes[i + 1].t = maximumAllowedTemperature
              /\ probes[i + 1].phase = "cap"
         ELSE /\ temperatureGuess = maximumAllowedTemperature
              /\ rangePc = "cap"
    /\ ( probes[i].phase = "cap" /\ probes[i].b ) =>
         /\ i = Len(probes)
         /\ rangePc = "done"
         /\ rangeOfMaxTemperature
              = << maximumAllowedTemperature, maximumAllowedTemperature >>
         /\ narrowingStep = 0

\* The search doubled its guess onto the cap, found the vacuum still below
\* critical there and returned.
C10_Witness ==
  /\ rangePc = "done"
  /\ Len(probes) >= 2
  /\ probes[Len(probes)] = [t |-> maximumAllowedTemperature, b |-> TRUE,
                            phase |-> "cap"]
  /\ probes[Len(probes) - 1].t.v + TicksPerOctave
       = maximumAllowedTemperature.v
  /\ rangeOfMaxTemperature
       = << maximumAllowedTemperature, maximumAllowedTemperature >>

\* The tests made by the narrowing loop, in order.
NarrowingProbes == SelectSeq(probes, LAMBDA p : p.phase = "narrowing")

\* The search has returned from its last statement, not at the cap.
ReturnedBracket ==
  /\ rangePc = "done"
  /\ probes # << >>
  /\ probes[Len(probes)].phase # "cap"

\* The bracket the i-th test, a test of the narrowing loop, started from:
\* (g, 2g) for the last guess g of the halving loop, then with the low end
\* replaced by each guess tested below critical and the high end by each
\* guess tested not below critical.
RECURSIVE BracketBefore(_)
BracketBefore(i) ==
  LET last == probes[i - 1]
  IN  IF last.phase # "narrowing"
      THEN << last.t,
              IF last.t.k = "pow2"
              THEN Tick(last.t.v + TicksPerOctave)
              ELSE last.t >>
      ELSE IF last.b
           THEN << last.t, BracketBefore(i - 1)[2] >>
           ELSE << BracketBefore(i - 1)[1], last.t >>

Positive(t) == t.k = "pow2"

NarrowingIteration == rangePc = "narrowing" /\ probes' # probes

\* log2( high / low ) of a bracket with positive ends, in grid points.
LogRatio(range) == range[2].v - range[1].v

\* The statement of C12 as claimed: every iteration of the narrowing loop
\* divides high / low by sqrt(2), which takes half an octave off
\* log2( high / low ).
C12_RatioDividedBySqrtTwo ==
  [][ NarrowingIteration =>
        /\ Positive(rangeOfMaxTemperature'[1])
        /\ Positive(rangeOfMaxTemperature'[2])
        /\ LogRatio(rangeOfMaxTemperature')
             = LogRatio(rangeOfMaxTemperature) - TicksPerOctave \div 2 ]_vars

\* C12: every iteration of the narrowing loop that starts from a bracket with
\* positive ends whose product does not underflow leaves a bracket with
\* positive ends whose ratio high / low is the square root of the ratio
\* before the iteration (log2( high / low ) is halved).
C12_RatioSquareRooted ==
  [][ ( /\ NarrowingIteration
        /\ Positive(rangeOfMaxTemperature[1])
        /\ Positive(rangeOfMaxTemperature[2])
        /\ rangeOfMaxTemperature[1].v + rangeOfMaxTemperature[2].v
             >= LowestTick ) =>
        /\ Positive(rangeOfMaxTemperature'[1])
        /\ Positive(rangeOfMaxTemperature'[2])
        /\ 2 * LogRatio(rangeOfMaxTemperature')
             = LogRatio(rangeOfMaxTemperature) ]_vars

\* Two iterations of the narrowing loop have run on a positive bracket, which
\* is now a quarter of an octave wide.
C12_Witness ==
  /\ narrowingStep = 2
  /\ Positive(rangeOfMaxTemperature[1])
  /\ Positive(rangeOfMaxTemperature[2])
  /\ 4 * LogRatio(rangeOfMaxTemperature) = TicksPerOctave
  /\ temperatureGuess \in { rangeOfMaxTemperature[1],
                            rangeOfMaxTemperature[2] }

\* C13: the search stops after a bounded number of tests: no loop tests the
\* same temperature twice.  (The test is deterministic and the guess is the
\* only state of the doubling and of the halving loop, so a loop that comes
\* back to a temperature it has tested repeats itself for ever.)
C13_EveryLoopStops ==
  \A i, j \in 1..Len(probes) :
    ( /\ i < j
      /\ probes[i].phase = probes[j].phase
      /\ probes[i].phase \in { "doubling", "halving" } ) =>
      probes[i].t # probes[j].t

\* a <= b for temperatures that are 0 or positive.
AtMost(a, b) ==
  \/ a = Zero
  \/ Positive(a) /\ Positive(b) /\ a.v <= b.v

----------------------------------------------------------------------------
(* Properties of NodesOnBisectingPlanes (specification SpecNodes)          *)

Built == nodesPc = "built"

\* The path positions set before position p of adjustmentOrder: the two
\* ends of the path and the indices scheduled earlier.
DeterminedBefore(p) ==
  { 0, numberOfIntermediateNodes + 1 }
    \cup { adjustmentOrder[q] : q \in 1..(p - 1) }

\* C15: for a requested count n >= 1 the constructor leaves
\* numberOfIntermediateNodes = 2^k - 1 for k = numberOfSplits >= 1, the
\* smallest such number that is at least n, sizes pathNodes to that number
\* plus 2 and schedules k levels (2^k - 1 indices).
C15_SmallestPowerOfTwoLessOne ==
  ( Built /\ requestedNodes >= 1 ) =>
    /\ numberOfSplits >= 1
    /\ numberOfIntermediateNodes = PowerOfTwo(numberOfSplits) - 1
    /\ numberOfIntermediateNodes >= requestedNodes
    /\ PowerOfTwo(numberOfSplits - 1) - 1 < requestedNodes
    /\ pathNodesSize = numberOfIntermediateNodes + 2
    /\ Len(adjustmentOrder) = PowerOfTwo(numberOfSplits) - 1

\* The constructor was asked for 16 nodes and made 31 in 5 splits.
C15_Witness ==
  /\ Built
  /\ requestedNodes = 16
  /\ numberOfIntermediateNodes = 31
  /\ numberOfSplits = 5
  /\ pathNodesSize = 33

\* C16: for every index i in adjustmentOrder the two side nodes recorded for
\* i lie below and above i, each is an end of the path or an index scheduled
\* before i, no position determined before i lies strictly between them, and
\* they are the adjacent positions i - 1 and i + 1 only at the last level.
C16_SideNodesDetermined ==
  Built =>
    \A p \in 1..Len(adjustmentOrder) :
      LET i == adjustmentOrder[p]
          first == sideNodeIndices[i][1]
          second == sideNodeIndices[i][2]
      IN  /\ first < i /\ i < second
          /\ first \in DeterminedBefore(p)
          /\ second \in DeterminedBefore(p)
          /\ \A d \in DeterminedBefore(p) : ~( first < d /\ d < second )
          /\ ( first = i - 1 /\ second = i + 1 )
               <=> ( p >= PowerOfTwo(numberOfSplits - 1) )

\* Seven nodes have been scheduled: the side nodes of 2 are 0 and 4, those of
\* 6 are 4 and 8, those of 5 are 4 and 6.
C16_Witness ==
  /\ Built
  /\ numberOfIntermediateNodes = 7
  /\ sideNodeIndices[4] = << 0, 8 >>
  /\ sideNodeIndices[2] = << 0, 4 >>
  /\ sideNodeIndices[6] = << 4, 8 >>
  /\ sideNodeIndices[5] = << 4, 6 >>

\* C17: the constructor does not complete for a requested count of 0.
C17_ZeroNodesRejected ==
  ~( /\ Built
     /\ requestedNodes = 0
     /\ numberOfIntermediateNodes = 0
     /\ adjustmentOrder = << >> )

\* The statement of C18 as claimed: the first index of adjustmentOrder is
\* numberOfIntermediateNodes / 2 in integer division.
C18_FirstIsHalfOfNodes ==
  ( Built /\ adjustmentOrder # << >> ) =>
    adjustmentOrder[1] = numberOfIntermediateNodes \div 2

\* C18: the first index of adjustmentOrder, when there is one, is
\* ( numberOfIntermediateNodes + 1 ) / 2, the position half-way between the
\* ends 0 and numberOfIntermediateNodes + 1 of the path.
C18_FirstIsMiddleOfPath ==
  ( Built /\ adjustmentOrder # << >> ) =>
    /\ adjustmentOrder[1] = ( numberOfIntermediateNodes + 1 ) \div 2
    /\ 2 * adjustmentOrder[1] = numberOfIntermediateNodes + 1

\* Fifteen nodes have been scheduled, position 8 first.
C18_Witness ==
  /\ Built
  /\ numberOfIntermediateNodes = 15
  /\ adjustmentOrder[1] = 8

\* C19: adjustmentOrder is made of numberOfSplits consecutive levels, level
\* l holding 2^l indices, each half-way between two neighbouring positions
\* determined by the levels before it; it has length
\* numberOfIntermediateNodes = 2^numberOfSplits - 1 and holds every index
\* from 1 to numberOfIntermediateNodes once and no end of the path.
C19_LevelsOfMidpoints ==
  Built =>
    /\ Len(adjustmentOrder) = numberOfIntermediateNodes
    /\ numberOfIntermediateNodes = PowerOfTwo(numberOfSplits) - 1
    /\ { adjustmentOrder[p] : p \in 1..Len(adjustmentOrder) }
         = 1..numberOfIntermediateNodes
    /\ \A p, q \in 1..Len(adjustmentOrder) :
         p # q => adjustmentOrder[p] # adjustmentOrder[q]
    /\ \A level \in 0..(numberOfSplits - 1) :
         \A p \in PowerOfTwo(level)..(PowerOfTwo(level + 1) - 1) :
           \E low, high \in DeterminedBefore(PowerOfTwo(level)) :
             /\ low < adjustmentOrder[p]
             /\ adjustmentOrder[p] < high
             /\ 2 * adjustmentOrder[p] = low + high
             /\ \A d \in DeterminedBefore(PowerOfTwo(level)) :
                  ~( low < d /\ d < high )

\* Fifteen nodes have been scheduled in four levels: 8, then 4 and 12, then
\* 2, 6, 10, 14, then the odd positions.
C19_Witness ==
  /\ Built
  /\ numberOfSplits = 4
  /\ SubSeq(adjustmentOrder, 1, 7) = << 8, 4, 12, 2, 6, 10, 14 >>
  /\ Len(adjustmentOrder) = 15

\* Component fieldIndex (from 0) of TrueSideNode - FalseSideNode in the last
\* call of UpdateRotationMatrix.
NodeDifference(fieldIndex) ==
  rotationArgs.endNode[fieldIndex + 1] - rotationArgs.startNode[fieldIndex + 1]

NoZeroDifference ==
  \A fieldIndex \in 0..(numberOfFields - 1) : NodeDifference(fieldIndex) # 0

\* The dot product of columns a and b of the matrix, over rows 0..row.
RECURSIVE ColumnDotProduct(_, _, _, _)
ColumnDotProduct(matrix, a, b, row) ==
  LET term == Times(matrix[row][a], matrix[row][b])
  IN  IF row = 0
      THEN term
      ELSE Plus(term, ColumnDotProduct(matrix, a, b, row - 1))

\* C20: the matrix left by UpdateRotationMatrix for side nodes whose
\* difference has no zero component is orthonormal: every column has unit
\* length and any two distinct columns have dot product 0.
C20_RotationMatrixOrthonormal ==
  ( rotationMatrix # << >> /\ NoZeroDifference ) =>
    \A a, b \in 0..(numberOfFields - 1) :
      ColumnDotProduct(rotationMatrix, a, b, numberOfFields - 1)
        = IF a = b THEN Whole(1) ELSE Whole(0)

\* Element rowIndex of the referenceField column of the matrix.
ReferenceColumn(rowIndex) ==
  rotationMatrix[rowIndex][rotationArgs.referenceField]

\* C21: after UpdateRotationMatrix the referenceField column of the matrix is
\* the normalised difference TrueSideNode - FalseSideNode: it has unit
\* length, its components are in the proportion of those of the difference,
\* and its component 0 has the sign of endNode[0] - startNode[0].
C21_ReferenceColumnIsDirection ==
  rotationMatrix # << >> =>
    /\ ColumnDotProduct(rotationMatrix, rotationArgs.referenceField,
                        rotationArgs.referenceField, numberOfFields - 1)
         = Whole(1)
    /\ \A i, j \in 0..(numberOfFields - 1) :
         Times(ReferenceColumn(i), Whole(NodeDifference(j)))
           = Times(ReferenceColumn(j), Whole(NodeDifference(i)))
    /\ ReferenceColumn(0).n * NodeDifference(0) > 0

\* C22: when a component of the difference that UpdateRotationMatrix divides
\* by is zero, no division by zero is performed: the matrix it leaves holds
\* finite numbers only.
C22_NoDivisionByZero ==
  ( rotationMatrix # << >> /\ ~NoZeroDifference ) =>
    \A rowIndex, columnIndex \in 0..(numberOfFields - 1) :
      rotationMatrix[rowIndex][columnIndex].d # 0

\* The members AddTransformedNode must leave alone.
nodeMembers ==
  << numberOfIntermediateNodes, numberOfSplits, pathNodesSize,
     adjustmentOrder, sideNodeIndices, rotationArgs, rotationMatrix >>

\* The fields other than the reference field.
OtherFields == ( 0..(numberOfFields - 1) ) \ { rotationArgs.referenceField }

\* The field that takes coordinate number c (counted from 1) of the
\* parameterization: the c-th of the other fields in ascending order.
SlotOf(c) ==
  CHOOSE fieldIndex \in OtherFields :
    Cardinality({ lower \in OtherFields : lower < fieldIndex }) = c - 1

\* The embedded vector: 0 at the reference field, the coordinates of the
\* parameterization in order in the other slots.
Embedded(nodeParameterization, fieldIndex) ==
  IF fieldIndex = rotationArgs.referenceField
  THEN 0
  ELSE nodeParameterization[
         CHOOSE c \in 1..(numberOfFields - 1) : SlotOf(c) = fieldIndex ]

\* The sum over columns 0..column of matrix element times embedded slot.
RECURSIVE RotatedComponent(_, _, _)
RotatedComponent(nodeParameterization, rowIndex, column) ==
  LET term == Times(rotationMatrix[rowIndex][column],
                    Whole(Embedded(nodeParameterization, column)))
  IN  IF column = 0
      THEN term
      ELSE Plus(RotatedComponent(nodeParameterization, rowIndex, column - 1),
                term)

\* What a call leaves in node: the vector passed in plus the rotated embedding.
AnchorPlusRotated(node) ==
  /\ Len(node.nodeParameterization) = numberOfFields - 1
  /\ \A fieldIndex \in 0..(numberOfFields - 1) :
       node.result[fieldIndex]
         = Plus(Whole(node.nodeVector[fieldIndex + 1]),
                RotatedComponent(node.nodeParameterization, fieldIndex,
                                 numberOfFields - 1))

\* C23: the nodeVector AddTransformedNode leaves is, component by component,
\* the nodeVector passed in plus the rotation matrix times the vector that
\* has 0 in the referenceField slot and the numberOfFields - 1 coordinates of
\* the parameterization, in order and once each, in the other slots; the call
\* changes none of the node plan, the side nodes and the rotation matrix.
C23_TransformedNodeAdded ==
  [][transformedNode' # transformedNode =>
       /\ AnchorPlusRotated(transformedNode')
       /\ nodeMembers' = nodeMembers]_vars

\* A node with three fields and the middle one as reference field has been
\* transformed by a matrix that is not the identity.
C23_Witness ==
  /\ transformedNode.result # << >>
  /\ numberOfFields = 3
  /\ rotationArgs.referenceField = 1
  /\ transformedNode.nodeVector = << 1, -3, 2 >>
  /\ transformedNode.nodeParameterization = << 2, -1 >>
  /\ transformedNode.result[0] # Whole(3)

\* C28: every CalculateTunneling call that does not throw sets the five
\* result fields to -1 before anything else, so that during and after the
\* call the fields of a calculation the call has not run are -1, as is the
\* decay width when the thermal calculation has run but ruled the tunneling
\* out without computing it.
C28_FieldsResetByEveryCall ==
  /\ [][pc = "idle" /\ outcome' # "threw" =>
          /\ quantumSurvivalProbability' = IntD(-1)
          /\ quantumLifetimeInSeconds' = IntD(-1)
          /\ thermalSurvivalProbability' = IntD(-1)
          /\ partialThermalDecayWidth' = IntD(-1)
          /\ dominantTemperatureInGigaElectronVolts' = IntD(-1)]_vars
  /\ [](outcome \in { "running", "returned" } =>
          /\ ~Called("CalculateQuantumTunneling") =>
               /\ quantumSurvivalProbability = IntD(-1)
               /\ quantumLifetimeInSeconds = IntD(-1)
          /\ ~Called("CalculateThermalTunneling") =>
               /\ thermalSurvivalProbability = IntD(-1)
               /\ partialThermalDecayWidth = IntD(-1)
               /\ dominantTemperatureInGigaElectronVolts = IntD(-1)
          /\ ThermalExcluded(args) => partialThermalDecayWidth = IntD(-1))

\* A QuantumThenThermal call has returned after the quantum calculation
\* alone, with the thermal fields at -1, on a tunneler whose thermal
\* calculation ran in an earlier call (it has left its logarithm).
C28_Witness ==
  /\ tunnelingStrategy = "QuantumThenThermal"
  /\ outcome = "returned"
  /\ Calculations = << "CalculateQuantumTunneling" >>
  /\ logOfMinusLogOfThermalProbability # Uninitialised
  /\ thermalSurvivalProbability = IntD(-1)
  /\ partialThermalDecayWidth = IntD(-1)
  /\ dominantTemperatureInGigaElectronVolts = IntD(-1)

\* C30: once CalculateThermalTunneling has written thermalSurvivalProbability
\* in a call, SetThermalSurvivalProbability applied to the stored
\* logOfMinusLogOfThermalProbability gives the stored
\* thermalSurvivalProbability.
C30_LogConsistentWithProbability ==
  ( outcome \in { "running", "returned" }
    /\ Called("CalculateThermalTunneling") ) =>
    SetThermalSurvivalProbability(logOfMinusLogOfThermalProbability)
        .probability
      = thermalSurvivalProbability

\* C27: every temperature BelowCriticalTemperature is tested at, and both
\* ends of the bracket once it is set, are at most
\* maximumAllowedTemperature.
C27_TemperaturesCapped ==
  /\ \A i \in 1..Len(probes) : ~ExceedsCap(probes[i].t)
  /\ rangePc \in { "narrowing", "done" } =>
       /\ ~ExceedsCap(rangeOfMaxTemperature[1])
       /\ ~ExceedsCap(rangeOfMaxTemperature[2])

----------------------------------------------------------------------------
(* FindMinima: the minima it finds and records                             *)

\* C24: the loop on a NaN minimum stops after a bounded number of retries:
\* it never minimizes again from the point whose minimization has just
\* returned NaN.  (The minimizer is a function of the starting point at a
\* fixed temperature, and the point is the only thing an iteration could
\* change, so an iteration that starts from the point of the iteration
\* before repeats it for ever.)
C24_RetryLoopStops ==
  ~( /\ minimaPc = "retrying"
     /\ FoundNaN(lastMinimization.minimum)
     /\ lastMinimization.temperature = minimizerTemperature
     /\ lastMinimization.point = ScaledPoint(startingPoints[realSolution]) )

\* Every minimum of a sequence is free of NaN.
NoneNaN(minima) == \A i \in 1..Len(minima) : ~FoundNaN(minima[i])

\* C25: no minimum whose function value or function error is NaN is stored
\* in dsbVacuum, appended to foundMinima or to panicVacua, or chosen as
\* panicVacuum.
C25_NoNaNStored ==
  /\ ~FoundNaN(dsbVacuum)
  /\ NoneNaN(foundMinima)
  /\ NoneNaN(panicVacua)
  /\ ~FoundNaN(panicVacuum)

\* The step on which the first FindMinima call of the object returns.
FirstCallReturns ==
  /\ findMinimaCalls' = 1
  /\ minimaPc' = "idle"
  /\ findMinimaCalls = 0 \/ minimaPc # "idle"

\* The found minima lower than the DSB vacuum by more than their error that
\* are neither at the DSB vacuum nor at a phase rotation of it.
LowerMinima(minima, dsb) ==
  SelectSeq(minima,
            LAMBDA found :
              /\ Less(Added(found.value, found.error), dsb.value)
              /\ ~RolledToDsbOrSignFlip(found, dsb))

\* The first of the minima that none of them has a lower function value than.
LowestOf(minima) ==
  minima[ CHOOSE i \in 1..Len(minima) :
            \A j \in 1..Len(minima) :
              /\ j < i => Less(minima[i].value, minima[j].value)
              /\ j > i => ~Less(minima[j].value, minima[i].value) ]

\* The first of the minima that none of them is nearer to the DSB vacuum than.
NearestOf(minima, dsb) ==
  LET distance(i) == SquareDistanceTo(minima[i].field, dsb.field)
  IN  minima[ CHOOSE i \in 1..Len(minima) :
                \A j \in 1..Len(minima) :
                  /\ j < i => distance(i) < distance(j)
                  /\ j > i => distance(i) <= distance(j) ]

\* What the first call leaves: minima, vacua and vacuum for the points, the
\* DSB vacuum and the setting given.
LeftByFirstCall(points, dsb, minima, vacua, vacuum, setting) ==
  /\ Len(minima) = Len(points)
  /\ vacua = LowerMinima(minima, dsb)
  /\ vacua # << >> =>
       vacuum = IF setting THEN LowestOf(vacua) ELSE NearestOf(vacua, dsb)

\* C26: when the first FindMinima call of an object returns, foundMinima
\* holds one minimum per starting point, panicVacua holds, in order, those of
\* them with FunctionValue + FunctionError < dsbVacuum.FunctionValue that are
\* neither at the DSB vacuum nor at a phase rotation of it, and if there is
\* one, panicVacuum is the lowest of panicVacua when global_Is_Panic is set
\* and the nearest to dsbVacuum otherwise, the first found on a tie.
C26_MinimaOfFirstCall ==
  [][FirstCallReturns =>
       LeftByFirstCall(startingPoints', dsbVacuum', foundMinima',
                       panicVacua', panicVacuum', global_Is_Panic')]_vars

\* The first call has returned with two panic vacua equally far from the DSB
\* vacuum, the first found chosen although the second is lower.
C26_Witness ==
  /\ minimaPc = "idle"
  /\ findMinimaCalls = 1
  /\ dsbVacuum = PotentialMinimum(6, IntD(0), IntD(0))
  /\ Len(foundMinima) = 2
  /\ panicVacua = << PotentialMinimum(12, IntD(-1), IntD(0)),
                     PotentialMinimum(0, IntD(-2), IntD(0)) >>
  /\ panicVacuum = PotentialMinimum(12, IntD(-1), IntD(0))
  /\ ~global_Is_Panic

\* C29: startingPointFinder has run once as soon as FindMinima has been
\* called and never runs again; once found, startingPoints does not change;
\* every minimization of a call runs at the temperature the call was given.
C29_StartingPointsFoundOnce ==
  /\ [](finderCalls = IF findMinimaCalls = 0 THEN 0 ELSE 1)
  /\ [](findMinimaCalls > 0 =>
          /\ minimizerTemperature = minimizationTemperature
          /\ lastMinimization.temperature = minimizationTemperature)
  /\ [][findMinimaCalls > 0 => startingPoints' = startingPoints]_vars

\* A second call, at another temperature than the first, has minimized from
\* the starting point found by the first.
C29_Witness ==
  /\ findMinimaCalls = 2
  /\ finderCalls = 1
  /\ minimaPc = "idle"
  /\ startingPoints = << 10 >>
  /\ Len(foundMinima) = 2
  /\ minimizationTemperature = 1
  /\ lastMinimization.point # DsbFieldValues
  /\ lastMinimization.temperature = 1

============================================================================
